---- MODULE Spec2Model ----
(***************************************************************************)
(* A model of four parts of the Stella sources:                            *)
(*                                                                         *)
(*   - the bank mapping engine, CartridgeEnhanced (emucore/CartEnhanced),  *)
(*     whose declarations are in CartEnhanced.hxx.  The bodies of its      *)
(*     methods (CartEnhanced.cxx) follow the written specification of      *)
(*     the engine.                                                         *)
(*   - the high score engine, HighScoresManager (common/HighScoresManager) *)
(*   - the properties set, PropertiesSet (emucore/PropsSet)                *)
(*   - the key/value repository, KeyValueRepositorySqlite                  *)
(*                                                                         *)
(* Specifications:                                                         *)
(*   SpecCart   the cartridge: install, bank, peek, poke, patch, reset,    *)
(*              save, load                                                 *)
(*   SpecScore  the score arithmetic: score(n, trailing, isBCD, addr) and  *)
(*              numAddrBytes(digits, trailing) over drawn memory contents  *)
(*   SpecHS     the descriptor driven read: score() over drawn descriptors *)
(*   SpecConvert, SpecVar, SpecProps, SpecPeek, SpecFormat                 *)
(*              convert(), variation() and special(), set() and get(),     *)
(*              peek() and formattedScore(), each applied once to drawn    *)
(*              inputs                                                     *)
(*   SpecRead   score(), variation() and special() on the machine of an    *)
(*              installed cartridge                                        *)
(*   SpecPropSet  insert and getMD5 on the three lists of properties       *)
(*   SpecSql    the accessors of the prepared statements                   *)
(***************************************************************************)
EXTENDS Integers, Sequences, FiniteSets, TLC

VARIABLES
  \* ---- CartridgeEnhanced ----
  myBankShift,        \* log2 of the segment size       (CartEnhanced.hxx:139)
  myRamSize,          \* size of the extra RAM          (CartEnhanced.hxx:151)
  mySize,             \* size of the ROM image          (CartEnhanced.hxx:169)
  startBank,          \* what the policy's getStartBank() returns
  installed,          \* install() has run
  myCurrentSegOffset, \* segment -> offset into the image (CartEnhanced.hxx:160)
  myImage,            \* image offset -> byte, for the bytes that differ from the ROM file
  myRAM,              \* RAM index -> byte              (CartEnhanced.hxx:166)
  stream,             \* the Serializer's content, a sequence of values
  saved,              \* history: segment offsets and RAM when save() last ran
  patches,            \* number of patch() calls so far (bounded by MaxPatches)
  cartOp,             \* the last cartridge operation, its arguments and its result
  \* ---- HighScoresManager ----
  hasConsole,         \* myOSystem.hasConsole()
  sysMem,             \* address -> byte: what console().system().peek(addr) returns
  intRamSize,         \* cartridge().internalRamSize()
  intRam,             \* address -> byte: what cartridge().internalRamGetValue(addr) returns
  hsProp,             \* the parsed Cart_Highscore document: key -> value
  hsReads,            \* the addresses the last operation read, in order
  hsOp,               \* the last high score operation, its arguments and its result
  \* ---- PropertiesSet ----
  myExternalProps,    \* md5 -> properties: the entries saved on exit  (PropsSet.cxx:92)
  myTempProps,        \* md5 -> properties: the entries discarded      (PropsSet.cxx:100)
  propOp,             \* the last properties set operation, its arguments and its result
  \* ---- KeyValueRepositorySqlite ----
  myStmts,            \* prepared statement -> its state (myStmtInsert .. myStmtCount)
  sqlOp               \* the last repository operation and the statement it returned

cartVars == <<myBankShift, myRamSize, mySize, startBank, installed,
              myCurrentSegOffset, myImage, myRAM, stream, saved, patches, cartOp>>

hsVars == <<hasConsole, sysMem, intRamSize, intRam, hsProp, hsReads, hsOp>>

propVars == <<myExternalProps, myTempProps, propOp>>

sqlVars == <<myStmts, sqlOp>>

storeVars == <<propVars, sqlVars>>

vars == <<cartVars, hsVars, storeVars>>

\* The properties set and the repository are not part of the specification.
StoreIdle ==
  /\ myExternalProps = <<>>
  /\ myTempProps = <<>>
  /\ propOp = [op |-> "none"]
  /\ myStmts = <<>>
  /\ sqlOp = [op |-> "none"]

----------------------------------------------------------------------------
(* Bounds of the model *)

\* Largest number of banks a drawn ROM image holds.
MaxBanks == 2

\* Largest number of patch() calls in one behaviour.
MaxPatches == 1

----------------------------------------------------------------------------
(* CartridgeEnhanced: geometry *)

\* static constexpr uInt16 BANK_SHIFT = 12 (one 4K segment)
BANK_SHIFT == 12

\* static constexpr uInt16 RAM_SIZE = 0
RAM_SIZE == 0

\* 1 << n
Pow2(n) == 2 ^ n

\* The cartridge window of the CPU's address space is 2^BANK_SHIFT bytes.
WindowSize == Pow2(BANK_SHIFT)

\* myBankSize = 1 << myBankShift
myBankSize == Pow2(myBankShift)

\* address & myBankMask
BankMasked(address) == address % myBankSize

\* myBankSegs: the number of segments the window is split into
myBankSegs == Pow2(BANK_SHIFT - myBankShift)

Segments == 0 .. (myBankSegs - 1)

\* address & myRamMask, myRamMask = myRamSize - 1
RamMasked(address) == IF myRamSize = 0 THEN 0 ELSE address % myRamSize

\* bankCount(): total banks = imageSize / bankSize
bankCount == mySize \div myBankSize

\* The segment a CPU address lies in: the high bits of the window offset.
SegmentOf(address) == (address % WindowSize) \div myBankSize

\* The RAM window: the first myRamSize bytes of the cartridge window.
InRamWindow(address) == (address % WindowSize) < myRamSize

\* The bytes of the ROM file the cartridge was constructed from.
RomFile(i) == (i * 37 + (i \div 256)) % 256

\* myImage[i]
ImageByte(img, i) == IF i \in DOMAIN img THEN img[i] ELSE RomFile(i)

\* virtual getStartBank(): 0 unless the cartridge family overrides it
getStartBank == startBank

----------------------------------------------------------------------------
(* CartridgeEnhanced: operations on the mapping *)

\* The byte offset of a bank in the image: bank * bankSize, modulo the image size.
BankOffset(bank) == (bank * myBankSize) % mySize

\* bank(bank, segment) with a bank count check of c banks: the result and the
\* segment offsets after it.
BankWith(c, offsets, bank, segment) ==
  IF bank >= c
    THEN [ok |-> FALSE, offsets |-> offsets]
    ELSE [ok |-> TRUE,
          offsets |-> [offsets EXCEPT ![segment] = BankOffset(bank)]]

\* A bank() that accepts every bank index.
BankUnchecked(offsets, bank, segment) ==
  [ok |-> TRUE, offsets |-> [offsets EXCEPT ![segment] = BankOffset(bank)]]

\* A bank() that always records the new bank in segment 0.
BankSegmentZero(offsets, bank, segment) == BankWith(bankCount, offsets, bank, 0)

\* bool bank(uInt16 bank, uInt16 segment)
Bank(offsets, bank, segment) == BankWith(bankCount, offsets, bank, segment)

\* A getBank() that always looks at segment 0.
GetBankSegmentZero(offsets, address) == offsets[0] \div myBankSize

\* uInt16 getBank(uInt16 address): the segment holding the address, its offset
\* turned back into a bank index.
GetBank(offsets, address) == offsets[SegmentOf(address)] \div myBankSize

\* The start bank in every segment, as install() and reset() set it up.
RECURSIVE StartBanksFrom(_, _)
StartBanksFrom(offsets, s) ==
  IF s >= myBankSegs THEN offsets
  ELSE StartBanksFrom(Bank(offsets, getStartBank, s).offsets, s + 1)

\* A reset that restores the start bank in segment 0 only.
ResetSegmentZeroOnly(offsets) == Bank(offsets, getStartBank, 0).offsets

\* reset(): restores the start bank in every segment.
ResetOffsets(offsets) == StartBanksFrom(offsets, 0)

\* The image offset a CPU address is mapped to.
MappedOffset(offsets, address) == offsets[SegmentOf(address)] + BankMasked(address)

\* What a read of the address returns, the hotspot check aside: the RAM byte in
\* the RAM window, else the ROM byte of the mapped bank.
PeekValue(offsets, img, ram, address) ==
  IF InRamWindow(address) THEN ram[RamMasked(address)]
  ELSE ImageByte(img, MappedOffset(offsets, address))

----------------------------------------------------------------------------
(* CartridgeEnhanced: inputs *)

\* CPU addresses the operations are called with: a mirror of the window start
\* (in the RAM window when there is RAM), the first address past a 128 byte RAM
\* window, the start of the second 2K segment, and a hotspot.
CartAddrs == {12288, 4224, 6144, 8184}

\* Addresses the cartridge family's checkSwitchBank() reacts to.
Hotspots == {8184}

\* The byte value written by poke() (the RAM starts out as zeroes).
CartBytes == {255}

\* The address and the byte value patch() is called with.
PatchAddrs == {6144}

PatchBytes == {234}

\* A cartridge operation with its arguments and result.
Op(op, bank, seg, ret) == [op |-> op, bank |-> bank, seg |-> seg, ret |-> ret]

\* virtual checkSwitchBank(address, value) = 0: what a cartridge family may
\* decide for an access.  Off the hotspots there is no switch; on a hotspot the
\* family asks bank() for some bank (in range or not) in some segment.
NoSwitch == [switch |-> FALSE, bank |-> 0, seg |-> 0]

SwitchDecisions(address) ==
  IF address \in Hotspots
    THEN {[switch |-> TRUE, bank |-> b, seg |-> s] : b \in 0 .. bankCount, s \in Segments}
    ELSE {NoSwitch}

\* The segment offsets after the hotspot check took decision d.
CheckSwitchBank(offsets, d) ==
  IF d.switch THEN Bank(offsets, d.bank, d.seg).offsets ELSE offsets

\* 1 when the hotspot check performed a bank switch, else 0 (kept in cartOp.seg).
Switched(offsets, d) ==
  IF d.switch /\ Bank(offsets, d.bank, d.seg).ok THEN 1 ELSE 0

\* A save() that leaves out the last segment's offset.
SaveStreamShort(offsets, ram) ==
  [i \in 1 .. (myBankSegs + myRamSize) |->
     IF i < myBankSegs THEN offsets[i - 1]
     ELSE IF i = myBankSegs THEN 0
     ELSE ram[i - 1 - myBankSegs]]

\* Serializer: the segment offsets, then the RAM bytes when there is RAM.
SaveStream(offsets, ram) ==
  [i \in 1 .. (myBankSegs + myRamSize) |->
     IF i <= myBankSegs THEN offsets[i - 1] ELSE ram[i - 1 - myBankSegs]]

LoadOffsets(str) == [s \in Segments |-> str[s + 1]]

LoadRam(str) == [i \in 0 .. (myRamSize - 1) |-> str[myBankSegs + i + 1]]

----------------------------------------------------------------------------
(* CartridgeEnhanced: the state machine *)

\* No high score operation has run; no console is attached.
HsIdle ==
  /\ hasConsole = FALSE
  /\ sysMem = <<>>
  /\ intRamSize = 0
  /\ intRam = <<>>
  /\ hsProp = <<>>
  /\ hsReads = <<>>
  /\ hsOp = [op |-> "none"]

\* The cartridge as constructed: a ROM image of 1..MaxBanks banks, possibly with
\* half a bank more, segments of 2K or 4K, no RAM or 128 bytes of it, and a
\* family whose start bank is one of the image's banks.
CartInit ==
  /\ myBankShift \in {BANK_SHIFT - 1, BANK_SHIFT}
  /\ myRamSize \in {RAM_SIZE, 128}
  /\ \E n \in 1 .. MaxBanks : \E extra \in {0, 1024} :
       mySize = n * Pow2(myBankShift) + extra
  /\ startBank \in {0, (mySize \div Pow2(myBankShift)) - 1}
  /\ installed = FALSE
  /\ myCurrentSegOffset = <<>>
  /\ myImage = <<>>
  /\ myRAM = <<>>
  /\ stream = <<>>
  /\ saved = [offsets |-> <<>>, ram |-> <<>>]
  /\ patches = 0
  /\ cartOp = Op("new", 0, 0, FALSE)
  /\ HsIdle
  /\ StoreIdle

cartConfig == <<myBankShift, myRamSize, mySize, startBank>>

\* install(system): sizes and masks, the RAM area, the start bank in the segments
Install ==
  /\ ~installed
  /\ installed' = TRUE
  /\ myCurrentSegOffset' = ResetOffsets([s \in Segments |-> 0])
  /\ myRAM' = [i \in 0 .. (myRamSize - 1) |-> 0]
  /\ cartOp' = Op("install", 0, 0, TRUE)
  /\ UNCHANGED <<cartConfig, myImage, stream, saved, patches>>
  /\ UNCHANGED <<hsVars, storeVars>>

\* bank(bank, segment)
CartBank ==
  /\ installed
  /\ \E b \in 0 .. (bankCount + 1) : \E s \in Segments :
       LET r == Bank(myCurrentSegOffset, b, s) IN
         /\ myCurrentSegOffset' = r.offsets
         /\ cartOp' = Op("bank", b, s, r.ok)
  /\ UNCHANGED <<cartConfig, installed, myImage, myRAM, stream, saved, patches>>
  /\ UNCHANGED <<hsVars, storeVars>>

\* peek(address): the hotspot check, then the read
CartPeek ==
  /\ installed
  /\ \E a \in CartAddrs : \E d \in SwitchDecisions(a) :
       LET offs == CheckSwitchBank(myCurrentSegOffset, d) IN
         /\ myCurrentSegOffset' = offs
         /\ cartOp' = Op("peek", 0, Switched(myCurrentSegOffset, d),
                         PeekValue(offs, myImage, myRAM, a) \in 0 .. 255)
  /\ UNCHANGED <<cartConfig, installed, myImage, myRAM, stream, saved, patches>>
  /\ UNCHANGED <<hsVars, storeVars>>

\* A poke() that writes through to the ROM image outside the RAM window.
CartPokeWritesImage ==
  /\ installed
  /\ \E a \in CartAddrs : \E v \in CartBytes : \E d \in SwitchDecisions(a) :
       LET offs == CheckSwitchBank(myCurrentSegOffset, d)
           o == MappedOffset(offs, a) IN
       /\ myCurrentSegOffset' = offs
       /\ cartOp' = Op("poke", 0, Switched(myCurrentSegOffset, d), TRUE)
       /\ IF InRamWindow(a)
            THEN /\ myRAM' = [myRAM EXCEPT ![RamMasked(a)] = v]
                 /\ myImage' = myImage
            ELSE /\ myRAM' = myRAM
                 /\ myImage' = [i \in DOMAIN myImage \cup {o} |->
                                  IF i = o THEN v ELSE myImage[i]]
  /\ UNCHANGED <<cartConfig, installed, stream, saved, patches>>
  /\ UNCHANGED <<hsVars, storeVars>>

\* poke(address, value): the hotspot check, then the write to the RAM window
CartPoke ==
  /\ installed
  /\ \E a \in CartAddrs : \E v \in CartBytes : \E d \in SwitchDecisions(a) :
       /\ myCurrentSegOffset' = CheckSwitchBank(myCurrentSegOffset, d)
       /\ IF InRamWindow(a)
            THEN /\ myRAM' = [myRAM EXCEPT ![RamMasked(a)] = v]
                 /\ cartOp' = Op("poke", 0, Switched(myCurrentSegOffset, d), TRUE)
            ELSE /\ myRAM' = myRAM
                 /\ cartOp' = Op("poke", 0, Switched(myCurrentSegOffset, d), d.switch)
  /\ UNCHANGED <<cartConfig, installed, myImage, stream, saved, patches>>
  /\ UNCHANGED <<hsVars, storeVars>>

\* patch(address, value): the image byte the address is mapped to
CartPatch ==
  /\ installed
  /\ patches < MaxPatches
  /\ patches' = patches + 1
  /\ \E a \in PatchAddrs : \E v \in PatchBytes :
       LET o == MappedOffset(myCurrentSegOffset, a) IN
         /\ myImage' = [i \in DOMAIN myImage \cup {o} |-> IF i = o THEN v ELSE myImage[i]]
         /\ cartOp' = Op("patch", 0, 0, TRUE)
  /\ UNCHANGED <<cartConfig, installed, myCurrentSegOffset, myRAM, stream, saved>>
  /\ UNCHANGED <<hsVars, storeVars>>

\* reset()
CartReset ==
  /\ installed
  /\ myCurrentSegOffset' = ResetOffsets(myCurrentSegOffset)
  /\ cartOp' = Op("reset", 0, 0, TRUE)
  /\ UNCHANGED <<cartConfig, installed, myImage, myRAM, stream, saved, patches>>
  /\ UNCHANGED <<hsVars, storeVars>>

\* save(out)
CartSave ==
  /\ installed
  /\ stream' = SaveStream(myCurrentSegOffset, myRAM)
  /\ saved' = [offsets |-> myCurrentSegOffset, ram |-> myRAM]
  /\ cartOp' = Op("save", 0, 0, TRUE)
  /\ UNCHANGED <<cartConfig, installed, myCurrentSegOffset, myImage, myRAM, patches>>
  /\ UNCHANGED <<hsVars, storeVars>>

\* load(in); cartOp.seg is 1 when the engine was freshly reset
CartLoad ==
  /\ installed
  /\ stream # <<>>
  /\ myCurrentSegOffset' = LoadOffsets(stream)
  /\ myRAM' = LoadRam(stream)
  /\ cartOp' = Op("load", 0, IF cartOp.op = "reset" THEN 1 ELSE 0, TRUE)
  /\ UNCHANGED <<cartConfig, installed, myImage, stream, saved, patches>>
  /\ UNCHANGED <<hsVars, storeVars>>

CartNext ==
  \/ Install
  \/ CartBank
  \/ CartPeek
  \/ CartPoke
  \/ CartPatch
  \/ CartReset
  \/ CartSave
  \/ CartLoad

SpecCart == CartInit /\ [][CartNext]_vars

----------------------------------------------------------------------------
(* HighScoresManager: constants of HighScoresManager.hxx *)

\* HSM::NO_VALUE
NO_VALUE == -1

\* HSM::DEFAULT_ADDRESS
DEFAULT_ADDRESS == 0

\* HSM::MAX_SCORE_DIGITS
MAX_SCORE_DIGITS == 8

\* HSM::MAX_SCORE_ADDR: the number of entries of a ScoreAddresses array
MAX_SCORE_ADDR == 4

\* HighScoresManager::MAX_TRAILING
MAX_TRAILING == 3

\* HighScoresManager::DEFAULT_DIGITS
DEFAULT_DIGITS == 4

\* HighScoresManager::DEFAULT_TRAILING
DEFAULT_TRAILING == 0

\* HighScoresManager::DEFAULT_SCORE_BCD
DEFAULT_SCORE_BCD == TRUE

----------------------------------------------------------------------------
(* 32 bit arithmetic.  An Int32 is an integer in -2^31 .. 2^31-1; products   *)
(* and sums are computed on 16 bit halves so that no intermediate value      *)
(* leaves that range.  Each operation gives the value wrapped to 32 bits     *)
(* and whether the exact result fits (signed overflow when it does not).     *)

Half == 2 ^ 16

\* The signed value of the 32 bit pattern with high half hi and low half lo.
FromHalves(hi, lo) ==
  (IF hi % Half >= 32768 THEN (hi % Half) - Half ELSE hi % Half) * Half + lo

\* x * c for an Int32 x and a small factor c > 0
MulInt32(x, c) ==
  LET lo == (x % Half) * c
      hi == (x \div Half) * c + (lo \div Half)
  IN [val |-> FromHalves(hi, lo % Half), ovf |-> hi < -32768 \/ hi > 32767]

\* x + y for an Int32 x and a small y >= 0
AddInt32(x, y) ==
  LET lo == (x % Half) + y
      hi == (x \div Half) + (lo \div Half)
  IN [val |-> FromHalves(hi, lo % Half), ovf |-> hi < -32768 \/ hi > 32767]

\* Integer division of C++: the quotient truncated toward zero
TruncDiv(x, d) == IF x >= 0 THEN x \div d ELSE -((-x) \div d)

\* a < b for two uInt32 values, each held as the Int32 with the same bit
\* pattern (a negative Int32 stands for the value plus 2^32)
ULess32(a, b) ==
  IF (a >= 0) = (b >= 0) THEN a < b ELSE a >= 0

----------------------------------------------------------------------------
(* HighScoresManager: reading the score *)

\* A peek that asks the cartridge first whenever it has internal RAM.
PeekCartridgeFirst(addr) ==
  IF hasConsole
    THEN IF intRamSize = 0 THEN sysMem[addr] ELSE intRam[addr]
    ELSE NO_VALUE

\* Int16 peek(uInt16 addr)
Peek(addr) ==
  IF hasConsole
    THEN IF addr < 256 \/ intRamSize = 0 THEN sysMem[addr] ELSE intRam[addr]
    ELSE NO_VALUE

\* A fromBCD that substitutes zero for a byte that is not BCD.
FromBCDZero(bcd) ==
  LET b == bcd % 256 IN
    IF (b \div 16) * 16 >= 160 \/ b % 16 >= 10
      THEN 0
      ELSE (b \div 16) * 10 + (b % 16)

\* Int32 fromBCD(uInt8 bcd)
fromBCD(bcd) ==
  LET b == bcd % 256 IN
    IF (b \div 16) * 16 >= 160 \/ b % 16 >= 10
      THEN NO_VALUE
      ELSE (b \div 16) * 10 + (b % 16)

\* A numAddrBytes that rounds up: (digits - trailing + 2) / 2.
NumAddrBytesCeil(digits, trailing) == TruncDiv(digits - trailing + 2, 2)

\* uInt32 numAddrBytes(Int32 digits, Int32 trailing); the uInt32 result is held
\* as the Int32 with the same bit pattern
numAddrBytes(digits, trailing) == TruncDiv(digits - trailing + 1, 2)

\* The loop of score() over bytes b .. n (counted from 1) of scoreAddr; st is
\* the running total, whether a signed overflow has happened, and the
\* addresses read.
RECURSIVE ScoreLoop(_, _, _, _, _)
ScoreLoop(n, isBCD, scoreAddr, b, st) ==
  IF b > n THEN st
  ELSE
    LET mul == MulInt32(st.total, IF isBCD THEN 100 ELSE 256)
        addr == scoreAddr[b]
        raw == Peek(addr)
        reads == Append(st.reads, addr)
        ovf == st.ovf \/ mul.ovf
    IN IF isBCD /\ fromBCD(raw) = NO_VALUE
         THEN [total |-> NO_VALUE, ovf |-> ovf, reads |-> reads, bad |-> TRUE]
         ELSE
           LET add == AddInt32(mul.val, IF isBCD THEN fromBCD(raw) ELSE raw)
           IN ScoreLoop(n, isBCD, scoreAddr, b + 1,
                        [total |-> add.val, ovf |-> ovf \/ add.ovf,
                         reads |-> reads, bad |-> FALSE])

\* for (i < trailingZeroes) totalScore *= 10
RECURSIVE TimesTen(_, _)
TimesTen(r, i) ==
  IF i = 0 THEN r
  ELSE LET mul == MulInt32(r.val, 10)
       IN TimesTen([val |-> mul.val, ovf |-> r.ovf \/ mul.ovf], i - 1)

\* A score that scales the total whatever its value.
ScoreAlwaysScaled(numBytes, trailingZeroes, isBCD, scoreAddr) ==
  IF ~hasConsole
    THEN [val |-> NO_VALUE, ovf |-> FALSE, reads |-> <<>>]
    ELSE
      LET st == ScoreLoop(numBytes, isBCD, scoreAddr, 1,
                          [total |-> 0, ovf |-> FALSE, reads |-> <<>>, bad |-> FALSE])
          r == TimesTen([val |-> st.total, ovf |-> st.ovf], trailingZeroes)
      IN [val |-> r.val, ovf |-> r.ovf, reads |-> st.reads]

\* Int32 score(uInt32 numAddrBytes, uInt32 trailingZeroes, bool isBCD,
\*             const ScoreAddresses& scoreAddr): the value with 32 bit wrap
\* around, whether a signed overflow happened on the way, the addresses read
score(numBytes, trailingZeroes, isBCD, scoreAddr) ==
  IF ~hasConsole
    THEN [val |-> NO_VALUE, ovf |-> FALSE, reads |-> <<>>]
    ELSE
      LET st == ScoreLoop(numBytes, isBCD, scoreAddr, 1,
                          [total |-> 0, ovf |-> FALSE, reads |-> <<>>, bad |-> FALSE])
      IN IF st.bad \/ st.total = NO_VALUE
           THEN [val |-> NO_VALUE, ovf |-> st.ovf, reads |-> st.reads]
           ELSE LET r == TimesTen([val |-> st.total, ovf |-> st.ovf], trailingZeroes)
                IN [val |-> r.val, ovf |-> r.ovf, reads |-> st.reads]

\* Signed overflow is undefined behaviour: the build either wraps around or
\* traps.  The outcomes of a computation r: the value returned, or a trap.
Outcomes(r) ==
  IF r.ovf
    THEN {[val |-> r.val, trapped |-> FALSE], [val |-> 0, trapped |-> TRUE]}
    ELSE {[val |-> r.val, trapped |-> FALSE]}

----------------------------------------------------------------------------
(* HighScoresManager: the descriptor.  The Cart_Highscore property is JSON   *)
(* text; hsProp is the document json::parse gives for it, a function from    *)
(* the keys present to their values (the empty function for an empty         *)
(* property, which properties() turns into an empty JSON array).  A JSON     *)
(* string is a sequence of characters.                                       *)

SCORE_DIGITS == "score_digits"
SCORE_TRAILING_ZEROES == "score_trailing_zeroes"
SCORE_BCD == "score_bcd"
SCORE_ADDRESSES == "score_addresses"

Min(a, b) == IF a <= b THEN a ELSE b

\* getPropBool(jprops, key, defVal)
getPropBool(jprops, key, defVal) ==
  IF key \in DOMAIN jprops THEN jprops[key] ELSE defVal

\* getPropInt(jprops, key, defVal)
getPropInt(jprops, key, defVal) ==
  IF key \in DOMAIN jprops THEN jprops[key] ELSE defVal

\* numDigits(jprops)
numDigits(jprops) ==
  Min(getPropInt(jprops, SCORE_DIGITS, DEFAULT_DIGITS), MAX_SCORE_DIGITS)

\* trailingZeroes(jprops)
trailingZeroes(jprops) ==
  Min(getPropInt(jprops, SCORE_TRAILING_ZEROES, DEFAULT_TRAILING), MAX_TRAILING)

\* scoreBCD(jprops)
scoreBCD(jprops) == getPropBool(jprops, SCORE_BCD, DEFAULT_SCORE_BCD)

\* The value of a hexadecimal digit, -1 for any other character.
HexChars == <<"0", "1", "2", "3", "4", "5", "6", "7", "8", "9",
              "a", "b", "c", "d", "e", "f">>

UpperHexChars == <<"A", "B", "C", "D", "E", "F">>

HexVal(c) ==
  IF \E i \in 1 .. 16 : HexChars[i] = c
    THEN (CHOOSE i \in 1 .. 16 : HexChars[i] = c) - 1
  ELSE IF \E i \in 1 .. 6 : UpperHexChars[i] = c
    THEN (CHOOSE i \in 1 .. 6 : UpperHexChars[i] = c) + 9
  ELSE -1

\* BSPF::stringToIntBase16(s): the number the leading hexadecimal digits of s
\* spell, 0 when there is none.
RECURSIVE HexPrefixValue(_, _, _)
HexPrefixValue(str, i, acc) ==
  IF i > Len(str) \/ HexVal(str[i]) < 0 THEN acc
  ELSE HexPrefixValue(str, i + 1, (acc * 16 + HexVal(str[i])) % Half)

stringToIntBase16(str) == HexPrefixValue(str, 1, 0)

\* uInt16 fromHexStr(const string& addr): `pos' is the truth value of
\* find("0x") != npos, so two characters are dropped when "0x" occurs anywhere.
fromHexStr(addr) ==
  LET found == \E i \in 1 .. (Len(addr) - 1) : addr[i] = "0" /\ addr[i + 1] = "x"
      naked == IF found THEN SubSeq(addr, 3, Len(addr)) ELSE addr
  IN stringToIntBase16(naked)

\* The number of entries of the score address list of the document.
NumListed(jprops) ==
  IF SCORE_ADDRESSES \in DOMAIN jprops THEN Len(jprops[SCORE_ADDRESSES]) ELSE 0

\* getPropScoreAddr(jprops): a ScoreAddresses array, MAX_SCORE_ADDR entries
\* that start out as 0, the first ones overwritten from the list.
getPropScoreAddr(jprops) ==
  [a \in 1 .. MAX_SCORE_ADDR |->
     IF a <= NumListed(jprops)
       THEN IF jprops[SCORE_ADDRESSES][a] = <<>>
              THEN DEFAULT_ADDRESS
              ELSE fromHexStr(jprops[SCORE_ADDRESSES][a])
       ELSE 0]

\* Int32 score() const: scoreAddr.size() is the size of the array.
scoreOfProps(jprops) ==
  LET numBytes == numAddrBytes(numDigits(jprops), trailingZeroes(jprops))
      scoreAddr == getPropScoreAddr(jprops)
  IN IF ULess32(Len(scoreAddr), numBytes)
       THEN [val |-> NO_VALUE, ovf |-> FALSE, reads |-> <<>>]
       ELSE score(numBytes, trailingZeroes(jprops), scoreBCD(jprops), scoreAddr)

----------------------------------------------------------------------------
(* HighScoresManager: the score arithmetic over drawn memory contents *)

\* A high score operation with its arguments and its outcome.
HsOp(op, a, b, isBCD, out) ==
  [op |-> op, a |-> a, b |-> b, isBCD |-> isBCD, ret |-> out.val, trapped |-> out.trapped]

Returned(v) == [val |-> v, trapped |-> FALSE]

\* The cartridge is not part of the high score specifications.
CartIdle ==
  /\ myBankShift = BANK_SHIFT
  /\ myRamSize = RAM_SIZE
  /\ mySize = Pow2(BANK_SHIFT)
  /\ startBank = 0
  /\ installed = FALSE
  /\ myCurrentSegOffset = <<>>
  /\ myImage = <<>>
  /\ myRAM = <<>>
  /\ stream = <<>>
  /\ saved = [offsets |-> <<>>, ram |-> <<>>]
  /\ patches = 0
  /\ cartOp = Op("new", 0, 0, FALSE)

\* The RIOT RAM cells the drawn score lives in (0x80 .. 0x83), high byte first.
ScoreCells == <<128, 129, 130, 131>>

\* The byte values drawn for them: 0x00, 0x05, 0x12, 0x34 (valid BCD), 0x99 (the
\* largest BCD byte), 0x1A (low nibble 10), 0xA0 (high nibble 10) and 0xFF.
ScoreBytes == {0, 5, 18, 52, 153, 26, 160, 255}

ScoreInit ==
  /\ CartIdle
  /\ StoreIdle
  /\ hasConsole \in BOOLEAN
  /\ sysMem \in [{ScoreCells[i] : i \in 1 .. MAX_SCORE_ADDR} -> ScoreBytes]
  /\ intRamSize = 0
  /\ intRam = <<>>
  /\ hsProp = <<>>
  /\ hsReads = <<>>
  /\ hsOp = [op |-> "none"]

\* score(numAddrBytes, trailingZeroes, isBCD, scoreAddr), applied once to the
\* drawn memory
CallScore ==
  /\ hsOp.op = "none"
  /\ \E n \in 0 .. MAX_SCORE_ADDR : \E t \in 0 .. MAX_TRAILING : \E isBCD \in BOOLEAN :
       LET r == score(n, t, isBCD, ScoreCells) IN
         \E out \in Outcomes(r) :
           /\ hsOp' = HsOp("score", n, t, isBCD, out)
           /\ hsReads' = r.reads
  /\ UNCHANGED <<storeVars, cartVars, hasConsole, sysMem, intRamSize, intRam, hsProp>>

\* numAddrBytes(digits, trailing)
CallNumAddrBytes ==
  /\ hsOp.op = "none"
  /\ \E d \in 0 .. MAX_SCORE_DIGITS : \E t \in 0 .. MAX_TRAILING :
       hsOp' = HsOp("numAddrBytes", d, t, FALSE, Returned(numAddrBytes(d, t)))
  /\ hsReads' = <<>>
  /\ UNCHANGED <<storeVars, cartVars, hasConsole, sysMem, intRamSize, intRam, hsProp>>

ScoreNext ==
  \/ CallScore
  \/ CallNumAddrBytes

SpecScore == ScoreInit /\ [][ScoreNext]_vars

----------------------------------------------------------------------------
(* HighScoresManager: properties of the score arithmetic *)

\* The reference value of a score, as an exact number hi * 2^16 + lo with
\* 0 <= lo < 2^16: the base 100 accumulation of the decoded two digit bytes
\* (BCD) or the base 256 accumulation of the raw bytes, times 10^trailing.
RefTimes(r, c) ==
  [hi |-> r.hi * c + ((r.lo * c) \div Half), lo |-> (r.lo * c) % Half]

RefPlus(r, y) ==
  [hi |-> r.hi + ((r.lo + y) \div Half), lo |-> (r.lo + y) % Half]

RECURSIVE RefAccumulate(_, _, _, _)
RefAccumulate(bytes, isBCD, b, r) ==
  IF b > Len(bytes) THEN r
  ELSE RefAccumulate(bytes, isBCD, b + 1,
         IF isBCD
           THEN RefPlus(RefTimes(r, 100), (bytes[b] \div 16) * 10 + (bytes[b] % 16))
           ELSE RefPlus(RefTimes(r, 256), bytes[b]))

RECURSIVE RefScale(_, _)
RefScale(r, t) == IF t = 0 THEN r ELSE RefScale(RefTimes(r, 10), t - 1)

RefScore(bytes, trailing, isBCD) ==
  RefScale(RefAccumulate(bytes, isBCD, 1, [hi |-> 0, lo |-> 0]), trailing)

\* An Int32 v is the exact number r.
IsRef(v, r) == v >= 0 /\ v \div Half = r.hi /\ v % Half = r.lo

\* The first n score bytes in memory, high to low.
ScoreBytesRead(n) == [i \in 1 .. n |-> sysMem[ScoreCells[i]]]

ValidBCD(byte) == byte \div 16 <= 9 /\ byte % 16 <= 9

\* C7: with a console present, score(n, trailing, isBCD, addresses) equals the
\* reference value: for BCD with all nibbles in 0..9 the base 100 accumulation
\* of the decoded bytes, for binary the base 256 accumulation of the raw bytes,
\* in both cases multiplied by 10^trailing.
C7_ScoreIsReference ==
  (/\ hsOp.op = "score"
   /\ hasConsole
   /\ hsOp.isBCD => \A i \in 1 .. hsOp.a : ValidBCD(ScoreBytesRead(hsOp.a)[i]))
  => /\ ~hsOp.trapped
     /\ IsRef(hsOp.ret, RefScore(ScoreBytesRead(hsOp.a), hsOp.b, hsOp.isBCD))

\* The examples of C7 do come out: BCD bytes 0x12, 0x34 with no trailing zero
\* give 1234, and binary bytes 0x00, 0x05 with one trailing zero give 50.
C7_Examples ==
  /\ (hsOp.op = "score" /\ hasConsole /\ hsOp.isBCD /\ hsOp.a = 2 /\ hsOp.b = 0
        /\ ScoreBytesRead(2) = <<18, 52>>) => hsOp.ret = 1234
  /\ (hsOp.op = "score" /\ hasConsole /\ ~hsOp.isBCD /\ hsOp.a = 2 /\ hsOp.b = 1
        /\ ScoreBytesRead(2) = <<0, 5>>) => hsOp.ret = 50

\* C8: with BCD encoding, if any one of the score bytes read has a high or low
\* nibble >= 10, the score read returns NO_VALUE (-1), whatever the other bytes
\* and the trailing zero count are.
C8_InvalidBCDGivesNoValue ==
  (/\ hsOp.op = "score"
   /\ hasConsole
   /\ hsOp.isBCD
   /\ \E i \in 1 .. hsOp.a : ~ValidBCD(ScoreBytesRead(hsOp.a)[i]))
  => (hsOp.ret = NO_VALUE /\ ~hsOp.trapped)

\* C8 happens: three BCD bytes, the last of them 0x1A (its low nibble is 10)
\* after two valid ones, with two trailing zeroes, gave NO_VALUE.
C8_Witness ==
  /\ hsOp.op = "score"
  /\ hasConsole
  /\ hsOp.isBCD
  /\ hsOp.a = 3
  /\ hsOp.b = 2
  /\ ScoreBytesRead(3) = <<18, 52, 26>>
  /\ hsOp.ret = NO_VALUE

\* C9 as claimed: numAddrBytes equals ceil((digits - trailingZeroes + 1) / 2)
\* for every digits and trailingZeroes within their maxima.
C9_AsClaimed ==
  hsOp.op = "numAddrBytes" =>
    hsOp.ret = ((hsOp.a - hsOp.b + 1) + 1) \div 2

\* C9, amended: numAddrBytes equals floor((digits - trailingZeroes + 1) / 2),
\* which is ceil((digits - trailingZeroes) / 2), whenever
\* digits + 1 >= trailingZeroes; below that the quotient is truncated toward
\* zero and converted to uInt32 (0, or 2^32-1 for 0 digits and 3 trailing zeroes).
C9_NumAddrBytes ==
  hsOp.op = "numAddrBytes" =>
    /\ hsOp.a + 1 >= hsOp.b =>
         /\ hsOp.ret = (hsOp.a - hsOp.b + 1) \div 2
         /\ 2 * hsOp.ret \in {hsOp.a - hsOp.b, hsOp.a - hsOp.b + 1}
    /\ hsOp.a + 2 = hsOp.b => hsOp.ret = 0
    /\ hsOp.a + 3 = hsOp.b => ULess32(MAX_SCORE_ADDR, hsOp.ret)

\* C9 happens: 4 digits without trailing zeroes take 2 bytes (not 3).
C9_Witness ==
  /\ hsOp.op = "numAddrBytes"
  /\ hsOp.a = 4
  /\ hsOp.b = 0
  /\ hsOp.ret = 2

----------------------------------------------------------------------------
(* HighScoresManager: the descriptor driven read over drawn descriptors *)

\* A document field: present with the value in opt, or absent when opt is empty.
Field(key, opt) == [k \in {key : v \in opt} |-> CHOOSE v \in opt : TRUE]

\* Address texts: "0x80" .. "0x83", "81" without the marker, and "".
Txt80 == <<"0", "x", "8", "0">>
Txt81 == <<"0", "x", "8", "1">>
Txt82 == <<"0", "x", "8", "2">>
Txt83 == <<"0", "x", "8", "3">>
TxtBare81 == <<"8", "1">>

\* The score address lists drawn: none, an empty one, lists of 1, 2 and 4
\* entries, and one with an empty text and a text without marker.
AddressLists ==
  {<<>>, <<Txt80>>, <<Txt80, Txt81>>, <<<<>>, TxtBare81>>,
   <<Txt80, Txt81, Txt82, Txt83>>}

\* The documents drawn: each field absent or holding one of a few values
\* (a digit count above the maximum among them).
HsDocuments ==
  {Field(SCORE_DIGITS, d) @@ Field(SCORE_TRAILING_ZEROES, t)
     @@ Field(SCORE_BCD, b) @@ Field(SCORE_ADDRESSES, a) :
     d \in {{}, {0}, {2}, {6}, {8}, {9}},
     t \in {{}, {1}, {3}},
     b \in {{}, {FALSE}},
     a \in {{}} \cup {{l} : l \in AddressLists}}

\* The memory cells the descriptors point to, and address 0.
HsCells == {0, 128, 129, 130, 131}

HsInit ==
  /\ CartIdle
  /\ StoreIdle
  /\ hasConsole \in BOOLEAN
  /\ sysMem \in [HsCells -> {18, 26}]
  /\ intRamSize = 0
  /\ intRam = <<>>
  /\ hsProp \in HsDocuments
  /\ hsReads = <<>>
  /\ hsOp = [op |-> "none"]

\* score(), applied once to the drawn descriptor and memory
CallScoreOfProps ==
  /\ hsOp.op = "none"
  /\ LET r == scoreOfProps(hsProp) IN
       \E out \in Outcomes(r) :
         /\ hsOp' = HsOp("scoreOfProps", 0, 0, FALSE, out)
         /\ hsReads' = r.reads
  /\ UNCHANGED <<storeVars, cartVars, hasConsole, sysMem, intRamSize, intRam, hsProp>>

HsNext ==
  \/ CallScoreOfProps

SpecHS == HsInit /\ [][HsNext]_vars

----------------------------------------------------------------------------
(* HighScoresManager: properties of the descriptor driven read *)

\* The byte count the descriptor's digits and trailing zeroes require.
RequiredBytes(jprops) == numAddrBytes(numDigits(jprops), trailingZeroes(jprops))

\* C10: score() returns NO_VALUE whenever the descriptor's stored score address
\* list has fewer entries than the byte count its digits and trailing zeroes
\* require, and reads no memory for the missing addresses.
C10_ShortListGivesNoValue ==
  (hsOp.op = "scoreOfProps" /\ NumListed(hsProp) < RequiredBytes(hsProp)) =>
    /\ hsOp.ret = NO_VALUE
    /\ Len(hsReads) <= NumListed(hsProp)

----------------------------------------------------------------------------
(* HighScoresManager: convert(), the normalisation of a variation byte *)

\* HSM::MAX_VARIATIONS
MAX_VARIATIONS == 256

\* HSM::DEFAULT_VARIATION
DEFAULT_VARIATION == 1

\* ceil(log(maxVal) / log(2)) for maxVal >= 1: the least b with 2^b >= maxVal
BinaryBits(maxVal) ==
  CHOOSE b \in 0 .. 9 : 2 ^ b >= maxVal /\ \A c \in 0 .. (b - 1) : 2 ^ c < maxVal

\* 10^b >= maxVal^4, without a product above 2^31
TenPowCovers(b, maxVal) ==
  IF b % 2 = 0
    THEN 10 ^ (b \div 2) >= maxVal * maxVal
    ELSE maxVal * maxVal <= (10 ^ b) \div (maxVal * maxVal)

\* ceil(log(maxVal) / log(10) * 4) for maxVal >= 1: the least b with
\* 10^(b/4) >= maxVal
BCDBits(maxVal) ==
  CHOOSE b \in 0 .. 10 :
    TenPowCovers(b, maxVal) /\ \A c \in 0 .. (b - 1) : ~TenPowCovers(c, maxVal)

\* A mask that keeps one bit more.
MaskOneBitMore(val, bits) == IF bits >= 30 THEN val ELSE val % (2 ^ (bits + 1))

\* val % (1 << bits) for val >= 0; 1 << 31 is beyond every such val
MaskBits(val, bits) == IF bits >= 31 THEN val ELSE val % (2 ^ bits)

\* A convert whose increment is for the values that are not zero-based.
ConvertOneBasedIncrement(val, bits, isBCD, zeroBased) ==
  LET masked == MaskBits(val, bits)
      decoded == IF isBCD THEN fromBCD(masked) ELSE masked
  IN IF decoded = NO_VALUE THEN 0
     ELSE decoded + (IF zeroBased THEN 0 ELSE 1)

\* A convert without the replacement of NO_VALUE by 0.
ConvertNoZero(val, bits, isBCD, zeroBased) ==
  LET masked == MaskBits(val, bits)
      decoded == IF isBCD THEN fromBCD(masked) ELSE masked
  IN IF decoded = NO_VALUE THEN NO_VALUE
     ELSE decoded + (IF zeroBased THEN 1 ELSE 0)

\* convert() from `val %= 1 << bits' on
ConvertMasked(val, bits, isBCD, zeroBased) ==
  LET masked == MaskBits(val, bits)
      decoded == IF isBCD THEN fromBCD(masked) ELSE masked
  IN IF decoded = NO_VALUE THEN 0
     ELSE decoded + (IF zeroBased THEN 1 ELSE 0)

\* maxVal += zeroBased ? 0 : 1
ConvertMax(maxVal, zeroBased) == maxVal + (IF zeroBased THEN 0 ELSE 1)

\* Int32 convert(Int32 val, uInt32 maxVal, bool isBCD, bool zeroBased): the
\* outcomes.  For maxVal = 0 and zeroBased the logarithm is -infinity; its
\* conversion to Int32 and the shift by the result are undefined: the build
\* masks with 1 << 0, or with 1 << 31, or traps.
convert(val, maxVal, isBCD, zeroBased) ==
  LET m == ConvertMax(maxVal, zeroBased) IN
    IF m = 0
      THEN {Returned(ConvertMasked(val, 0, isBCD, zeroBased)),
            Returned(ConvertMasked(val, 31, isBCD, zeroBased)),
            [val |-> 0, trapped |-> TRUE]}
      ELSE {Returned(ConvertMasked(val, IF isBCD THEN BCDBits(m) ELSE BinaryBits(m),
                                   isBCD, zeroBased))}

\* A convert operation with its arguments and its outcome.
ConvertOp(val, maxVal, isBCD, zeroBased, out) ==
  [op |-> "convert", val |-> val, maxVal |-> maxVal, isBCD |-> isBCD,
   zeroBased |-> zeroBased, ret |-> out.val, trapped |-> out.trapped]

\* The bytes memory can hold.
Bytes == 0 .. 255

ConvertInit ==
  /\ CartIdle
  /\ StoreIdle
  /\ hasConsole = TRUE
  /\ sysMem = <<>>
  /\ intRamSize = 0
  /\ intRam = <<>>
  /\ hsProp = <<>>
  /\ hsReads = <<>>
  /\ hsOp = [op |-> "none"]

\* convert(val, maxVal, isBCD, zeroBased), applied once to a byte and a
\* variation count of 0 .. MAX_VARIATIONS
CallConvert ==
  /\ hsOp.op = "none"
  /\ \E val \in Bytes : \E maxVal \in 0 .. MAX_VARIATIONS :
       \E isBCD \in BOOLEAN : \E zeroBased \in BOOLEAN :
         \E out \in convert(val, maxVal, isBCD, zeroBased) :
           hsOp' = ConvertOp(val, maxVal, isBCD, zeroBased, out)
  /\ UNCHANGED <<storeVars, cartVars, hasConsole, sysMem, intRamSize, intRam, hsProp, hsReads>>

ConvertNext ==
  \/ CallConvert

SpecConvert == ConvertInit /\ [][ConvertNext]_vars

----------------------------------------------------------------------------
(* HighScoresManager: properties of convert() *)

\* b is the minimum bit count for the values up to m: of m in binary, of its
\* decimal digits at four bits each (ceil(4 log10 m)) in BCD.
IsMinBits(b, m, isBCD) ==
  IF isBCD
    THEN /\ TenPowCovers(b, m)
         /\ b > 0 => ~TenPowCovers(b - 1, m)
    ELSE /\ 2 ^ b >= m
         /\ b > 0 => 2 ^ (b - 1) < m

\* The value convert is to give for the masked byte when 1 is added for the
\* values with the flag `plusOne': the decoded byte plus that increment, 0 for a
\* masked byte that is not BCD.
Normalized(masked, isBCD, plusOne) ==
  IF isBCD /\ ~ValidBCD(masked % 256) THEN 0
  ELSE (IF isBCD THEN ((masked % 256) \div 16) * 10 + (masked % 16) ELSE masked)
         + (IF plusOne THEN 1 ELSE 0)

\* C11 as claimed: convert masks the raw byte modulo 2^bits, bits the minimum
\* bit count for maxValue (plus 1 when not zero-based), and then adds 1 exactly
\* when the value is NOT zero-based; convert(17, 4, false, false) returns 2.
C11_AsClaimed ==
  (hsOp.op = "convert" /\ ConvertMax(hsOp.maxVal, hsOp.zeroBased) >= 1) =>
    /\ ~hsOp.trapped
    /\ \E b \in 0 .. 10 :
         /\ IsMinBits(b, ConvertMax(hsOp.maxVal, hsOp.zeroBased), hsOp.isBCD)
         /\ hsOp.ret = Normalized(hsOp.val % (2 ^ b), hsOp.isBCD, ~hsOp.zeroBased)
    /\ (hsOp.val = 17 /\ hsOp.maxVal = 4 /\ ~hsOp.isBCD /\ ~hsOp.zeroBased)
         => hsOp.ret = 2

\* C11: convert masks the raw byte modulo 2^bits, bits the minimum bit count
\* for maxValue (plus 1 when not zero-based), decodes it when BCD, and then
\* adds 1 exactly when the value IS zero-based; convert(17, 4, false, false)
\* returns 1.  (A maxValue of 0 has no bit count when zero-based.)
C11_ConvertMasksThenAdds ==
  (hsOp.op = "convert" /\ ConvertMax(hsOp.maxVal, hsOp.zeroBased) >= 1) =>
    /\ ~hsOp.trapped
    /\ \E b \in 0 .. 10 :
         /\ IsMinBits(b, ConvertMax(hsOp.maxVal, hsOp.zeroBased), hsOp.isBCD)
         /\ hsOp.ret = Normalized(hsOp.val % (2 ^ b), hsOp.isBCD, hsOp.zeroBased)
    /\ (hsOp.val = 17 /\ hsOp.maxVal = 4 /\ ~hsOp.isBCD /\ ~hsOp.zeroBased)
         => hsOp.ret = 1

\* C11 happens: convert(17, 4, false, false) returned 1.
C11_Witness ==
  /\ hsOp.op = "convert"
  /\ hsOp.val = 17
  /\ hsOp.maxVal = 4
  /\ ~hsOp.isBCD
  /\ ~hsOp.zeroBased
  /\ hsOp.ret = 1

\* C13: convert never returns NO_VALUE: when the masked byte is not valid BCD
\* the result is 0, for every raw byte, maxValue and zero-based flag.
C13_ConvertNeverNoValue ==
  hsOp.op = "convert" =>
    /\ hsOp.ret # NO_VALUE
    /\ (/\ hsOp.isBCD
        /\ ConvertMax(hsOp.maxVal, hsOp.zeroBased) >= 1
        /\ ~ValidBCD(hsOp.val % (2 ^ BCDBits(ConvertMax(hsOp.maxVal, hsOp.zeroBased)))))
       => hsOp.ret = 0

\* C13 happens: the byte 0x1A, BCD with up to 99 variations (8 bits), is not
\* valid BCD and gave 0 although 1 is added for a zero-based value.
C13_Witness ==
  /\ hsOp.op = "convert"
  /\ hsOp.val = 26
  /\ hsOp.maxVal = 99
  /\ hsOp.isBCD
  /\ hsOp.zeroBased
  /\ hsOp.ret = 0

----------------------------------------------------------------------------
(* HighScoresManager: the variation and the special value of a descriptor *)

VARIATIONS_COUNT == "variations_number"
VARIATIONS_ADDRESS == "variations_address"
VARIATIONS_BCD == "variations_bcd"
VARIATIONS_ZERO_BASED == "variations_zero_based"
SPECIAL_ADDRESS == "special_address"
SPECIAL_BCD == "special_bcd"
SPECIAL_ZERO_BASED == "special_zero_based"

\* HighScoresManager::DEFAULT_VARS_BCD
DEFAULT_VARS_BCD == TRUE

\* HighScoresManager::DEFAULT_VARS_ZERO_BASED
DEFAULT_VARS_ZERO_BASED == FALSE

\* HighScoresManager::DEFAULT_SPECIAL_BCD
DEFAULT_SPECIAL_BCD == TRUE

\* HighScoresManager::DEFAULT_SPECIAL_ZERO_BASED
DEFAULT_SPECIAL_ZERO_BASED == FALSE

\* std::min of two uInt32 values, each held as the Int32 with the same bits
MinU32(a, b) == IF ULess32(a, b) THEN a ELSE b

\* getPropStr(jprops, key, defVal = "")
getPropStr(jprops, key) == IF key \in DOMAIN jprops THEN jprops[key] ELSE <<>>

\* getPropAddr(jprops, key, defVal)
getPropAddr(jprops, key, defVal) ==
  LET str == getPropStr(jprops, key) IN
    IF str = <<>> THEN defVal ELSE fromHexStr(str)

\* numVariations(jprops)
numVariations(jprops) ==
  MinU32(getPropInt(jprops, VARIATIONS_COUNT, DEFAULT_VARIATION), MAX_VARIATIONS)

\* varBCD(jprops)
varBCD(jprops) == getPropBool(jprops, VARIATIONS_BCD, DEFAULT_VARS_BCD)

\* varZeroBased(jprops)
varZeroBased(jprops) ==
  getPropBool(jprops, VARIATIONS_ZERO_BASED, DEFAULT_VARS_ZERO_BASED)

\* specialBCD(jprops)
specialBCD(jprops) == getPropBool(jprops, SPECIAL_BCD, DEFAULT_SPECIAL_BCD)

\* specialZeroBased(jprops)
specialZeroBased(jprops) ==
  getPropBool(jprops, SPECIAL_ZERO_BASED, DEFAULT_SPECIAL_ZERO_BASED)

\* varAddress(jprops)
varAddress(jprops) == getPropAddr(jprops, VARIATIONS_ADDRESS, DEFAULT_ADDRESS)

\* specialAddress(jprops)
specialAddress(jprops) == getPropAddr(jprops, SPECIAL_ADDRESS, DEFAULT_ADDRESS)

\* Int32 variation(uInt16 addr, bool varBCD, bool zeroBased, uInt32
\* numVariations): the outcomes and the addresses read
variation(addr, isBCD, zeroBased, count) ==
  IF ~hasConsole
    THEN [outs |-> {Returned(DEFAULT_VARIATION)}, reads |-> <<>>]
    ELSE [outs |-> convert(Peek(addr), count, isBCD, zeroBased), reads |-> <<addr>>]

\* A variation() that gives the default variation whenever no address is set.
VariationDefaultWithoutAddress(jprops) ==
  LET addr == varAddress(jprops) IN
    IF addr = DEFAULT_ADDRESS
      THEN [outs |-> {Returned(DEFAULT_VARIATION)}, reads |-> <<>>]
      ELSE variation(addr, varBCD(jprops), varZeroBased(jprops), numVariations(jprops))

\* Int32 variation() const
variationOfProps(jprops) ==
  LET addr == varAddress(jprops) IN
    IF addr = DEFAULT_ADDRESS
      THEN [outs |-> {Returned(IF numVariations(jprops) = 1
                                 THEN DEFAULT_VARIATION ELSE NO_VALUE)},
            reads |-> <<>>]
      ELSE variation(addr, varBCD(jprops), varZeroBased(jprops), numVariations(jprops))

\* A special whose increment is for the values that are not zero-based.
SpecialOneBasedIncrement(addr, isBCD, zeroBased) ==
  IF ~hasConsole
    THEN [val |-> NO_VALUE, reads |-> <<>>]
    ELSE [val |-> (IF isBCD THEN fromBCD(Peek(addr)) ELSE Peek(addr))
                    + (IF zeroBased THEN 0 ELSE 1),
          reads |-> <<addr>>]

\* Int32 special(uInt16 addr, bool varBCD, bool zeroBased)
special(addr, isBCD, zeroBased) ==
  IF ~hasConsole
    THEN [val |-> NO_VALUE, reads |-> <<>>]
    ELSE [val |-> (IF isBCD THEN fromBCD(Peek(addr)) ELSE Peek(addr))
                    + (IF zeroBased THEN 1 ELSE 0),
          reads |-> <<addr>>]

\* Int32 special() const
specialOfProps(jprops) ==
  LET addr == specialAddress(jprops) IN
    IF addr = DEFAULT_ADDRESS
      THEN [val |-> NO_VALUE, reads |-> <<>>]
      ELSE special(addr, specialBCD(jprops), specialZeroBased(jprops))

\* The address text "0x00".
Txt00 == <<"0", "x", "0", "0">>

\* The documents drawn: a variation count that is absent, 1, 0, 5 or above the
\* maximum, addresses that are absent, empty, "0x00" or a RIOT RAM cell, and
\* each flag absent or the opposite of its default.
VarDocuments ==
  {Field(VARIATIONS_COUNT, n) @@ Field(VARIATIONS_ADDRESS, va)
     @@ Field(VARIATIONS_BCD, vb) @@ Field(VARIATIONS_ZERO_BASED, vz)
     @@ Field(SPECIAL_ADDRESS, sa) @@ Field(SPECIAL_BCD, sb)
     @@ Field(SPECIAL_ZERO_BASED, sz) :
     n \in {{}, {1}, {0}, {5}, {300}},
     va \in {{}, {<<>>}, {Txt00}, {Txt80}},
     vb \in {{}, {FALSE}},
     vz \in {{}, {TRUE}},
     sa \in {{}, {<<>>}, {Txt81}},
     sb \in {{}, {FALSE}},
     sz \in {{}, {TRUE}}}

\* The memory cells the descriptors point to.
VarCells == {128, 129}

\* The byte values drawn for them: 0x07, 0x12 (valid BCD), 0x1A (low nibble
\* 10) and 0xA0 (high nibble 10).
VarBytes == {7, 18, 26, 160}

VarInit ==
  /\ CartIdle
  /\ StoreIdle
  /\ hasConsole \in BOOLEAN
  /\ sysMem \in [VarCells -> VarBytes]
  /\ intRamSize = 0
  /\ intRam = <<>>
  /\ hsProp \in VarDocuments
  /\ hsReads = <<>>
  /\ hsOp = [op |-> "none"]

\* variation(), applied once to the drawn descriptor and memory
CallVariation ==
  /\ hsOp.op = "none"
  /\ LET r == variationOfProps(hsProp) IN
       \E out \in r.outs :
         /\ hsOp' = HsOp("variation", 0, 0, FALSE, out)
         /\ hsReads' = r.reads
  /\ UNCHANGED <<storeVars, cartVars, hasConsole, sysMem, intRamSize, intRam, hsProp>>

\* special(), applied once to the drawn descriptor and memory
CallSpecial ==
  /\ hsOp.op = "none"
  /\ LET r == specialOfProps(hsProp) IN
       /\ hsOp' = HsOp("special", 0, 0, FALSE, Returned(r.val))
       /\ hsReads' = r.reads
  /\ UNCHANGED <<storeVars, cartVars, hasConsole, sysMem, intRamSize, intRam, hsProp>>

VarNext ==
  \/ CallVariation
  \/ CallSpecial

SpecVar == VarInit /\ [][VarNext]_vars

----------------------------------------------------------------------------
(* HighScoresManager: properties of variation() and special() *)

\* The document configures no address under the key: the key is absent or its
\* text is empty.
NotConfigured(jprops, key) == key \notin DOMAIN jprops \/ jprops[key] = <<>>

\* The variation count of the document, 1 when it has none.
DeclaredVariations(jprops) ==
  IF VARIATIONS_COUNT \in DOMAIN jprops THEN jprops[VARIATIONS_COUNT] ELSE 1

\* C12: with no variation address configured, variation() returns the default
\* variation (1) when the variation count is 1 and NO_VALUE otherwise, and
\* reads no memory.
C12_VariationWithoutAddress ==
  (hsOp.op = "variation" /\ NotConfigured(hsProp, VARIATIONS_ADDRESS)) =>
    /\ ~hsOp.trapped
    /\ hsOp.ret = IF DeclaredVariations(hsProp) = 1 THEN 1 ELSE NO_VALUE
    /\ hsReads = <<>>

\* C12 happens: five variations without an address gave NO_VALUE.
C12_Witness ==
  /\ hsOp.op = "variation"
  /\ VARIATIONS_ADDRESS \notin DOMAIN hsProp
  /\ DeclaredVariations(hsProp) = 5
  /\ hsOp.ret = NO_VALUE
  /\ hsReads = <<>>

\* The byte at the special address 0x81 of the drawn documents.
SpecialByte == sysMem[129]

\* The special value decoded: the two decimal digits of a BCD byte (NO_VALUE
\* for a byte that is not BCD), the byte itself in binary.
SpecialDecoded(byte, isBCD) ==
  IF ~isBCD THEN byte
  ELSE IF ValidBCD(byte) THEN (byte \div 16) * 10 + (byte % 16)
  ELSE NO_VALUE

\* The flags the document declares for the special value.
DeclaredSpecialBCD(jprops) ==
  IF SPECIAL_BCD \in DOMAIN jprops THEN jprops[SPECIAL_BCD] ELSE TRUE

DeclaredSpecialZeroBased(jprops) ==
  IF SPECIAL_ZERO_BASED \in DOMAIN jprops THEN jprops[SPECIAL_ZERO_BASED] ELSE FALSE

C15_CorruptSpecialClamped ==
  (/\ hsOp.op = "special"
   /\ hasConsole
   /\ ~NotConfigured(hsProp, SPECIAL_ADDRESS)
   /\ DeclaredSpecialBCD(hsProp)
   /\ ~ValidBCD(SpecialByte))
  => hsOp.ret # NO_VALUE

----------------------------------------------------------------------------
(* HighScoresManager: get() and set().  In this part hsProp is the           *)
(* Cart_Highscore text itself: the empty text, a text json::parse rejects,   *)
(* or JSON text, held as the document it spells with each value tagged by    *)
(* its JSON type.                                                            *)

SCORE_INVERTED == "score_inverted"
SPECIAL_LABEL == "special_label"
NOTES == "notes"

\* HighScoresManager::DEFAULT_SCORE_REVERSED
DEFAULT_SCORE_REVERSED == FALSE

\* JSON values: a record whose one field is named after the JSON type
Num(n) == [number |-> n]
Bool(b) == [boolean |-> b]
Str(s) == [string |-> s]
Arr(l) == [array |-> l]

TypeOf(v) == CHOOSE t \in DOMAIN v : TRUE

ValOf(v) == v[TypeOf(v)]

\* Cart_Highscore texts
EmptyText == [text |-> "empty", doc |-> <<>>]
MalformedText == [text |-> "malformed", doc |-> <<>>]
JsonText(doc) == [text |-> "json", doc |-> doc]

\* properties(const Properties& props): json::array() for the empty text, else
\* json::parse, which throws json::parse_error for text that is not JSON
properties(prop) ==
  [thrown |-> prop.text = "malformed",
   doc |-> IF prop.text = "json" THEN prop.doc ELSE <<>>]

\* The keys read with get<bool>(), get<uInt32>() and get<string>()
BoolKeys ==
  {VARIATIONS_BCD, VARIATIONS_ZERO_BASED, SCORE_BCD, SCORE_INVERTED, SPECIAL_BCD,
   SPECIAL_ZERO_BASED}

IntKeys == {VARIATIONS_COUNT, SCORE_DIGITS, SCORE_TRAILING_ZEROES}

StrKeys == {VARIATIONS_ADDRESS, SPECIAL_ADDRESS, SPECIAL_LABEL, NOTES}

\* jprops.at(key).get<T>() throws json::type_error for a value of another
\* type: get<bool>() takes a boolean, get<uInt32>() a number or a boolean,
\* get<string>() a string; getPropScoreAddr calls get<string>() on the
\* elements of a non-empty array.
GetThrows(doc, key) ==
  IF key \in BoolKeys THEN TypeOf(doc[key]) # "boolean"
  ELSE IF key \in IntKeys THEN TypeOf(doc[key]) \notin {"number", "boolean"}
  ELSE IF key \in StrKeys THEN TypeOf(doc[key]) # "string"
  ELSE IF key = SCORE_ADDRESSES
    THEN /\ TypeOf(doc[key]) = "array"
         /\ \E a \in 1 .. Len(doc[key].array) : TypeOf(doc[key].array[a]) # "string"
  ELSE FALSE

\* The value get<T>() gives for the value under the key: a boolean read as a
\* number is 0 or 1, an array of strings is the list of the strings, and a
\* score address value that is no array is skipped like an empty one.
GetValue(doc, key) ==
  IF key \in IntKeys /\ TypeOf(doc[key]) = "boolean"
    THEN IF doc[key].boolean THEN 1 ELSE 0
  ELSE IF key = SCORE_ADDRESSES
    THEN IF TypeOf(doc[key]) = "array"
           THEN [a \in 1 .. Len(doc[key].array) |-> ValOf(doc[key].array[a])]
           ELSE <<>>
  ELSE ValOf(doc[key])

\* The document as the getProp functions read it.
Values(doc) == [key \in DOMAIN doc |-> GetValue(doc, key)]

\* scoreInvert(jprops)
scoreInvert(jprops) == getPropBool(jprops, SCORE_INVERTED, DEFAULT_SCORE_REVERSED)

\* specialLabel(jprops)
specialLabel(jprops) == getPropStr(jprops, SPECIAL_LABEL)

\* notes(jprops)
notes(jprops) == getPropStr(jprops, NOTES)

\* bool enabled() const, for the properties whose Cart_Highscore text is prop
enabled(prop) ==
  [thrown |-> properties(prop).thrown,
   val |-> SCORE_ADDRESSES \in DOMAIN properties(prop).doc]

\* bool get(const Properties& props, uInt32& numVariationsR, ScoresInfo& info):
\* the properties passed are those enabled() looks at.
get(prop) ==
  LET doc == properties(prop).doc
      jprops == Values(doc)
  IN IF properties(prop).thrown \/ \E key \in DOMAIN doc : GetThrows(doc, key)
       THEN [thrown |-> TRUE]
       ELSE [thrown |-> FALSE,
             numVariations |-> numVariations(jprops),
             info |-> [numDigits |-> numDigits(jprops),
                       trailingZeroes |-> trailingZeroes(jprops),
                       scoreBCD |-> scoreBCD(jprops),
                       scoreInvert |-> scoreInvert(jprops),
                       varsBCD |-> varBCD(jprops),
                       varsZeroBased |-> varZeroBased(jprops),
                       special |-> specialLabel(jprops),
                       specialBCD |-> specialBCD(jprops),
                       specialZeroBased |-> specialZeroBased(jprops),
                       notes |-> notes(jprops),
                       varsAddr |-> varAddress(jprops),
                       specialAddr |-> specialAddress(jprops),
                       scoreAddr |-> getPropScoreAddr(jprops)],
             enabled |-> enabled(prop).val]

\* The hexadecimal digit d in the letter case of Base::setHexUppercase
HexDigit(d, uppercase) ==
  IF d >= 10 /\ uppercase THEN UpperHexChars[d - 9] ELSE HexChars[d + 1]

\* Base::toString(value, Base::Fmt::_16): two digits below 0x100, four below
\* 0x10000
toString(value, uppercase) ==
  IF value < 256
    THEN <<HexDigit(value \div 16, uppercase), HexDigit(value % 16, uppercase)>>
    ELSE <<HexDigit((value \div 4096) % 16, uppercase),
           HexDigit((value \div 256) % 16, uppercase),
           HexDigit((value \div 16) % 16, uppercase),
           HexDigit(value % 16, uppercase)>>

\* "0x" + Base::toString(addr, Base::Fmt::_16)
AddressText(addr, uppercase) == Str(<<"0", "x">> \o toString(addr, uppercase))

\* A field set() writes when the condition holds.
Written(key, cond, value) == Field(key, IF cond THEN {value} ELSE {})

\* set(): handle variations
SetVariations(count, info, uppercase) ==
  Written(VARIATIONS_COUNT, TRUE, Num(MinU32(count, MAX_VARIATIONS)))
    @@ Written(VARIATIONS_ADDRESS, count # DEFAULT_VARIATION,
               AddressText(info.varsAddr, uppercase))
    @@ Written(VARIATIONS_BCD, info.varsBCD # DEFAULT_VARS_BCD, Bool(info.varsBCD))
    @@ Written(VARIATIONS_ZERO_BASED, info.varsZeroBased # DEFAULT_VARS_ZERO_BASED,
               Bool(info.varsZeroBased))

\* A score part of set() that writes the digit count in every case.
SetScoreDense(info, uppercase) ==
  Written(SCORE_DIGITS, TRUE, Num(info.numDigits))
    @@ Written(SCORE_TRAILING_ZEROES, info.trailingZeroes # DEFAULT_TRAILING,
               Num(info.trailingZeroes))
    @@ Written(SCORE_BCD, info.scoreBCD # DEFAULT_SCORE_BCD, Bool(info.scoreBCD))
    @@ Written(SCORE_INVERTED, info.scoreInvert # DEFAULT_SCORE_REVERSED,
               Bool(info.scoreInvert))
    @@ Written(SCORE_ADDRESSES, TRUE,
               Arr([a \in 1 .. numAddrBytes(info.numDigits, info.trailingZeroes) |->
                      AddressText(info.scoreAddr[a], uppercase)]))

\* set(): handle score
SetScore(info, uppercase) ==
  Written(SCORE_DIGITS, info.numDigits # DEFAULT_DIGITS, Num(info.numDigits))
    @@ Written(SCORE_TRAILING_ZEROES, info.trailingZeroes # DEFAULT_TRAILING,
               Num(info.trailingZeroes))
    @@ Written(SCORE_BCD, info.scoreBCD # DEFAULT_SCORE_BCD, Bool(info.scoreBCD))
    @@ Written(SCORE_INVERTED, info.scoreInvert # DEFAULT_SCORE_REVERSED,
               Bool(info.scoreInvert))
    @@ Written(SCORE_ADDRESSES, TRUE,
               Arr([a \in 1 .. numAddrBytes(info.numDigits, info.trailingZeroes) |->
                      AddressText(info.scoreAddr[a], uppercase)]))

\* set(): handle special
SetSpecial(info, uppercase) ==
  Written(SPECIAL_LABEL, info.special # <<>>, Str(info.special))
    @@ Written(SPECIAL_ADDRESS, info.special # <<>>,
               AddressText(info.specialAddr, uppercase))
    @@ Written(SPECIAL_BCD, info.specialBCD # DEFAULT_SPECIAL_BCD,
               Bool(info.specialBCD))
    @@ Written(SPECIAL_ZERO_BASED, info.specialZeroBased # DEFAULT_SPECIAL_ZERO_BASED,
               Bool(info.specialZeroBased))

\* A notes part of set() that writes nothing.
SetNotesNever(info) == Written(NOTES, FALSE, Str(info.notes))

\* set(): handle notes
SetNotes(info) == Written(NOTES, info.notes # <<>>, Str(info.notes))

\* void set(Properties& props, uInt32 numVariations, const ScoresInfo& info):
\* the Cart_Highscore text written
set(count, info, uppercase) ==
  JsonText(SetVariations(count, info, uppercase) @@ SetScore(info, uppercase)
             @@ SetSpecial(info, uppercase) @@ SetNotes(info))

\* The ScoresInfo values drawn: digit counts of 1, 4 and 8 with no or one
\* trailing zero (0, 1, 2 and 4 score bytes), every flag, a special label and
\* notes that are empty or not, addresses that are 0 or a RIOT RAM cell, and
\* score addresses below and above 0x100.
ScoresInfos ==
  [numDigits : {1, 4, 8}, trailingZeroes : {0, 1},
   scoreBCD : BOOLEAN, scoreInvert : BOOLEAN,
   varsBCD : BOOLEAN, varsZeroBased : BOOLEAN,
   special : {<<>>, <<"L", "v">>}, specialBCD : BOOLEAN, specialZeroBased : BOOLEAN,
   notes : {<<>>, <<"n">>},
   varsAddr : {0, 128}, specialAddr : {0, 129},
   scoreAddr : {<<128, 129, 130, 131>>, <<496, 10, 0, 0>>}]

\* The variation counts drawn: 0, the default, 5 and one above the maximum.
VariationCounts == {0, 1, 5, 300}

\* The Cart_Highscore texts drawn: the empty text, one that is not JSON, and
\* documents whose fields are absent, well typed, or of another JSON type.
PropTexts ==
  {EmptyText, MalformedText} \cup
  {JsonText(Field(VARIATIONS_COUNT, n) @@ Field(SCORE_DIGITS, d)
              @@ Field(SCORE_BCD, b) @@ Field(SPECIAL_LABEL, l)
              @@ Field(SCORE_ADDRESSES, a)) :
     n \in {{}, {Num(0)}, {Num(1)}, {Num(5)}, {Num(300)}, {Num(-1)},
            {Bool(TRUE)}, {Str(<<"5">>)}},
     d \in {{}, {Num(6)}, {Str(<<"6">>)}},
     b \in {{}, {Bool(FALSE)}, {Num(0)}},
     l \in {{}, {Str(<<"L", "v">>)}, {Num(5)}},
     a \in {{}, {Arr(<<>>)}, {Arr(<<Str(Txt80), Str(Txt81)>>)}, {Arr(<<Num(128)>>)},
            {Num(128)}}}

PropsInit ==
  /\ CartIdle
  /\ StoreIdle
  /\ hasConsole = TRUE
  /\ sysMem = <<>>
  /\ intRamSize = 0
  /\ intRam = <<>>
  /\ hsProp \in PropTexts
  /\ hsReads = <<>>
  /\ hsOp = [op |-> "none"]

\* set(props, numVariations, info), applied once to properties without a
\* descriptor (the text written does not depend on the one replaced)
CallSet ==
  /\ hsOp.op = "none"
  /\ hsProp = EmptyText
  /\ \E count \in VariationCounts : \E info \in ScoresInfos : \E uppercase \in BOOLEAN :
       /\ hsProp' = set(count, info, uppercase)
       /\ hsOp' = [op |-> "set", numVariations |-> count, info |-> info]
  /\ UNCHANGED <<storeVars, cartVars, hasConsole, sysMem, intRamSize, intRam, hsReads>>

\* get(props, numVariationsR, info), applied once to the text drawn or written
CallGet ==
  /\ hsOp.op \in {"none", "set"}
  /\ hsOp' = [op |-> "get", after |-> hsOp, out |-> get(hsProp)]
  /\ UNCHANGED <<storeVars, cartVars, hasConsole, sysMem, intRamSize, intRam, hsProp, hsReads>>

\* enabled(), applied once to the text drawn or written
CallEnabled ==
  /\ hsOp.op \in {"none", "set"}
  /\ hsOp' = [op |-> "enabled", after |-> hsOp, out |-> enabled(hsProp)]
  /\ UNCHANGED <<storeVars, cartVars, hasConsole, sysMem, intRamSize, intRam, hsProp, hsReads>>

PropsNext ==
  \/ CallSet
  \/ CallGet
  \/ CallEnabled

SpecProps == PropsInit /\ [][PropsNext]_vars

----------------------------------------------------------------------------
(* HighScoresManager: properties of get() and set() *)

\* get() has been applied to the text set() wrote for hsOp.after.info.
SetThenGet == hsOp.op = "get" /\ hsOp.after.op = "set"

\* The number of score addresses a descriptor declares.
AddressCount(info) == numAddrBytes(info.numDigits, info.trailingZeroes)

\* Two descriptors are equal field by field, the score addresses being the
\* AddressCount(a) ones the descriptor declares.
SameInfo(a, b) ==
  /\ [a EXCEPT !.scoreAddr = <<>>] = [b EXCEPT !.scoreAddr = <<>>]
  /\ \A i \in 1 .. AddressCount(a) : a.scoreAddr[i] = b.scoreAddr[i]

\* C16 as claimed: for any descriptor with at least one score address (any
\* variation count, addresses, label, notes and flags within their limits),
\* set() followed by get() returns a variation count and a ScoresInfo equal
\* field by field to the ones written.
C16_AsClaimed ==
  (/\ SetThenGet
   /\ hsOp.after.numVariations \in 1 .. MAX_VARIATIONS
   /\ AddressCount(hsOp.after.info) >= 1)
  => /\ ~hsOp.out.thrown
     /\ hsOp.out.numVariations = hsOp.after.numVariations
     /\ SameInfo(hsOp.after.info, hsOp.out.info)

\* C16: for any descriptor with at least one score address, a variation count
\* up to MAX_VARIATIONS, no variation address when the count is 1 and no
\* special address when the special label is empty, set() followed by get()
\* returns a variation count and a ScoresInfo equal field by field to the ones
\* written (the score addresses being the ones the digits call for).
C16_RoundTrip ==
  (/\ SetThenGet
   /\ hsOp.after.numVariations <= MAX_VARIATIONS
   /\ AddressCount(hsOp.after.info) >= 1
   /\ hsOp.after.numVariations = 1 => hsOp.after.info.varsAddr = 0
   /\ hsOp.after.info.special = <<>> => hsOp.after.info.specialAddr = 0)
  => /\ ~hsOp.out.thrown
     /\ hsOp.out.numVariations = hsOp.after.numVariations
     /\ SameInfo(hsOp.after.info, hsOp.out.info)

\* C16 happens: five variations at 0x80, a labelled special value at 0x81,
\* notes, every flag off its default and the eight digits at 0x1F0, 0x0A, 0, 0
\* were written and read back equal.
C16_Witness ==
  /\ SetThenGet
  /\ hsOp.after.numVariations = 5
  /\ hsOp.after.info =
       [numDigits |-> 8, trailingZeroes |-> 1, scoreBCD |-> FALSE,
        scoreInvert |-> TRUE, varsBCD |-> FALSE, varsZeroBased |-> TRUE,
        special |-> <<"L", "v">>, specialBCD |-> FALSE, specialZeroBased |-> TRUE,
        notes |-> <<"n">>, varsAddr |-> 128, specialAddr |-> 129,
        scoreAddr |-> <<496, 10, 0, 0>>]
  /\ hsOp.out.numVariations = 5
  /\ hsOp.out.info = hsOp.after.info

\* The value the descriptor holds for the key is the field's default.
HoldsDefault(key, count, info) ==
  CASE key = VARIATIONS_COUNT -> count = 1
    [] key = VARIATIONS_ADDRESS -> info.varsAddr = 0
    [] key = VARIATIONS_BCD -> info.varsBCD = TRUE
    [] key = VARIATIONS_ZERO_BASED -> info.varsZeroBased = FALSE
    [] key = SCORE_DIGITS -> info.numDigits = 4
    [] key = SCORE_TRAILING_ZEROES -> info.trailingZeroes = 0
    [] key = SCORE_BCD -> info.scoreBCD = TRUE
    [] key = SCORE_INVERTED -> info.scoreInvert = FALSE
    [] key = SPECIAL_LABEL -> info.special = <<>>
    [] key = SPECIAL_ADDRESS -> info.specialAddr = 0
    [] key = SPECIAL_BCD -> info.specialBCD = TRUE
    [] key = SPECIAL_ZERO_BASED -> info.specialZeroBased = FALSE
    [] key = NOTES -> info.notes = <<>>

\* Every field of the descriptor holds its default.
AllDefault(count, info) ==
  \A key \in BoolKeys \cup IntKeys \cup StrKeys : HoldsDefault(key, count, info)

\* C17 as claimed: for every field other than the score address list, set()
\* emits the field's key only when the value differs from its default; the
\* all-default descriptor serializes to only the score address list.
C17_AsClaimed ==
  hsOp.op = "set" =>
    /\ \A key \in DOMAIN hsProp.doc \ {SCORE_ADDRESSES} :
         ~HoldsDefault(key, hsOp.numVariations, hsOp.info)
    /\ AllDefault(hsOp.numVariations, hsOp.info)
         => DOMAIN hsProp.doc = {SCORE_ADDRESSES}

\* The keys set() writes for a value off its default and only then.
SparseKeys ==
  (BoolKeys \cup IntKeys \cup StrKeys)
    \ {VARIATIONS_COUNT, VARIATIONS_ADDRESS, SPECIAL_ADDRESS}

\* C17: set() always emits the variation count and the score address list,
\* the variation address exactly when the count is not 1, the special address
\* exactly when the special label is not empty, and every other field's key
\* exactly when the value differs from its default; the all-default descriptor
\* serializes to the variation count and the score address list only.
C17_SparseSerialization ==
  hsOp.op = "set" =>
    /\ \A key \in SparseKeys :
         key \in DOMAIN hsProp.doc <=> ~HoldsDefault(key, hsOp.numVariations, hsOp.info)
    /\ {VARIATIONS_COUNT, SCORE_ADDRESSES} \subseteq DOMAIN hsProp.doc
    /\ VARIATIONS_ADDRESS \in DOMAIN hsProp.doc <=> hsOp.numVariations # 1
    /\ SPECIAL_ADDRESS \in DOMAIN hsProp.doc <=> hsOp.info.special # <<>>
    /\ AllDefault(hsOp.numVariations, hsOp.info)
         => DOMAIN hsProp.doc = {VARIATIONS_COUNT, SCORE_ADDRESSES}

\* C17 happens: the all-default descriptor was written as the variation count
\* and the two score addresses.
C17_Witness ==
  /\ hsOp.op = "set"
  /\ AllDefault(hsOp.numVariations, hsOp.info)
  /\ DOMAIN hsProp.doc = {VARIATIONS_COUNT, SCORE_ADDRESSES}
  /\ Len(hsProp.doc[SCORE_ADDRESSES].array) = 2

\* The stored descriptor lists at least one score address.
ListsScoreAddress(prop) ==
  /\ prop.text = "json"
  /\ SCORE_ADDRESSES \in DOMAIN prop.doc
  /\ TypeOf(prop.doc[SCORE_ADDRESSES]) = "array"
  /\ Len(prop.doc[SCORE_ADDRESSES].array) >= 1

\* C18: enabled(), and the boolean get() returns, is true exactly when the
\* stored descriptor's score address list is non-empty, also for descriptors
\* that set() produced.
C18_EnabledIffScoreAddress ==
  /\ (hsOp.op = "enabled" /\ ~hsOp.out.thrown)
       => (hsOp.out.val <=> ListsScoreAddress(hsProp))
  /\ (hsOp.op = "get" /\ ~hsOp.out.thrown)
       => (hsOp.out.enabled <=> ListsScoreAddress(hsProp))

\* C19: loading a descriptor raises no error, whatever the persisted text is
\* (text that is not JSON, values of the wrong type): get() completes.
C19_LoadNeverRaises ==
  hsOp.op = "get" => ~hsOp.out.thrown

\* C20: the variation count get() gives lies in 1 .. MAX_VARIATIONS whatever
\* number the text holds, and so does the count set() writes.
C20_VariationCountInRange ==
  /\ (hsOp.op = "get" /\ ~hsOp.out.thrown)
       => hsOp.out.numVariations \in 1 .. MAX_VARIATIONS
  /\ hsOp.op = "set"
       => hsProp.doc[VARIATIONS_COUNT].number \in 1 .. MAX_VARIATIONS

----------------------------------------------------------------------------
(* HighScoresManager: peek() over a system address space and a cartridge     *)
(* with or without internal RAM                                              *)

\* The addresses read: zero page, RIOT RAM, the last address below 0x100, the
\* first one at it, and two cartridge addresses.
PeekAddrs == {0, 128, 255, 256, 4096, 8184}

\* The bytes drawn for the system address space and for the cartridge's
\* internal RAM: no byte is in both, so that the value read tells where it
\* was read.
SystemBytes == {17, 34}

InternalRamBytes == {51}

PeekInit ==
  /\ CartIdle
  /\ StoreIdle
  /\ hasConsole \in BOOLEAN
  /\ sysMem \in [PeekAddrs -> SystemBytes]
  /\ intRamSize \in {0, 128}
  /\ intRam \in [PeekAddrs -> InternalRamBytes]
  /\ hsProp = <<>>
  /\ hsReads = <<>>
  /\ hsOp = [op |-> "none"]

\* peek(addr), applied once
CallPeek ==
  /\ hsOp.op = "none"
  /\ \E addr \in PeekAddrs :
       /\ hsOp' = [op |-> "peek", addr |-> addr, ret |-> Peek(addr)]
       /\ hsReads' = IF hasConsole THEN <<addr>> ELSE <<>>
  /\ UNCHANGED <<storeVars, cartVars, hasConsole, sysMem, intRamSize, intRam, hsProp>>

PeekNext ==
  \/ CallPeek

SpecPeek == PeekInit /\ [][PeekNext]_vars

\* C21: with a console, peek reads every address below 0x100 from the system
\* address space, never from the cartridge's internal RAM, also when the
\* cartridge has internal RAM; an address at or above 0x100 is read from the
\* cartridge's RAM exactly when the cartridge has internal RAM, and from the
\* system otherwise.
C21_PeekRouting ==
  (hsOp.op = "peek" /\ hasConsole) =>
    /\ hsOp.addr < 256 => hsOp.ret = sysMem[hsOp.addr]
    /\ (hsOp.addr >= 256 /\ intRamSize > 0) => hsOp.ret = intRam[hsOp.addr]
    /\ (hsOp.addr >= 256 /\ intRamSize = 0) => hsOp.ret = sysMem[hsOp.addr]

\* C21 happens: with internal RAM, address 0xFF was read from the system and
\* nothing else would have given that byte.
C21_Witness ==
  /\ hsOp.op = "peek"
  /\ hasConsole
  /\ intRamSize > 0
  /\ hsOp.addr = 255
  /\ hsOp.ret = sysMem[255]
  /\ hsOp.ret # intRam[255]

----------------------------------------------------------------------------
(* HighScoresManager: the reads on the emulated machine.  The cartridge is   *)
(* installed in the system the high score reads go to, so a read of an       *)
(* address in the cartridge's range is served by CartridgeEnhanced::peek.    *)

\* The address range the installed cartridge handles: address line 12 set.
InCartridge(addr) == (addr \div WindowSize) % 2 = 1

\* System::peek(addr): the handler of the address range serves the read.  For
\* the cartridge's range that is CartridgeEnhanced::peek: the hotspot check
\* (taking decision d), then the read.  The byte read and the segment offsets
\* after it.
SystemPeek(offsets, addr, d) ==
  IF InCartridge(addr)
    THEN LET offs == CheckSwitchBank(offsets, d)
         IN [val |-> PeekValue(offs, myImage, myRAM, addr), offsets |-> offs]
    ELSE [val |-> sysMem[addr], offsets |-> offsets]

\* Int16 peek(uInt16 addr) with the console present, on the machine whose
\* segment offsets are given: what the read may return and leave behind.
MachinePeek(offsets, addr) ==
  IF addr < 256 \/ intRamSize = 0
    THEN {SystemPeek(offsets, addr, d) : d \in SwitchDecisions(addr)}
    ELSE {[val |-> intRam[addr], offsets |-> offsets]}

\* One round of the loop of score() from state st: the running total, whether
\* a signed overflow has happened, the addresses read, whether an invalid BCD
\* byte ended the loop, and the segment offsets.
MachineScoreStep(isBCD, addr, st) ==
  IF st.bad THEN {st}
  ELSE
    {LET mul == MulInt32(st.total, IF isBCD THEN 100 ELSE 256)
         reads == Append(st.reads, addr)
         ovf == st.ovf \/ mul.ovf
     IN IF isBCD /\ fromBCD(p.val) = NO_VALUE
          THEN [total |-> NO_VALUE, ovf |-> ovf, reads |-> reads, bad |-> TRUE,
                offsets |-> p.offsets]
          ELSE
            LET add == AddInt32(mul.val, IF isBCD THEN fromBCD(p.val) ELSE p.val)
            IN [total |-> add.val, ovf |-> ovf \/ add.ovf, reads |-> reads,
                bad |-> FALSE, offsets |-> p.offsets] :
     p \in MachinePeek(st.offsets, addr)}

\* The loop of score() over bytes b .. n of scoreAddr from the states sts.
RECURSIVE MachineScoreLoop(_, _, _, _, _)
MachineScoreLoop(n, isBCD, scoreAddr, b, sts) ==
  IF b > n THEN sts
  ELSE MachineScoreLoop(n, isBCD, scoreAddr, b + 1,
                        UNION {MachineScoreStep(isBCD, scoreAddr[b], st) : st \in sts})

\* score(numAddrBytes, trailingZeroes, isBCD, scoreAddr) on the machine
MachineScore(numBytes, zeroes, isBCD, scoreAddr, offsets) ==
  IF ~hasConsole
    THEN {[val |-> NO_VALUE, ovf |-> FALSE, reads |-> <<>>, offsets |-> offsets]}
    ELSE
      {IF st.bad \/ st.total = NO_VALUE
         THEN [val |-> NO_VALUE, ovf |-> st.ovf, reads |-> st.reads,
               offsets |-> st.offsets]
         ELSE LET r == TimesTen([val |-> st.total, ovf |-> st.ovf], zeroes)
              IN [val |-> r.val, ovf |-> r.ovf, reads |-> st.reads,
                  offsets |-> st.offsets] :
       st \in MachineScoreLoop(numBytes, isBCD, scoreAddr, 1,
                               {[total |-> 0, ovf |-> FALSE, reads |-> <<>>,
                                 bad |-> FALSE, offsets |-> offsets]})}

\* Int32 score() const on the machine
MachineScoreOfProps(jprops, offsets) ==
  LET numBytes == numAddrBytes(numDigits(jprops), trailingZeroes(jprops))
      scoreAddr == getPropScoreAddr(jprops)
  IN IF ULess32(Len(scoreAddr), numBytes)
       THEN {[val |-> NO_VALUE, ovf |-> FALSE, reads |-> <<>>, offsets |-> offsets]}
       ELSE MachineScore(numBytes, trailingZeroes(jprops), scoreBCD(jprops),
                         scoreAddr, offsets)

\* Int32 variation() const on the machine: the outcomes, the addresses read
\* and the segment offsets
MachineVariationOfProps(jprops, offsets) ==
  LET addr == varAddress(jprops) IN
    IF addr = DEFAULT_ADDRESS
      THEN {[outs |-> {Returned(IF numVariations(jprops) = 1
                                  THEN DEFAULT_VARIATION ELSE NO_VALUE)},
             reads |-> <<>>, offsets |-> offsets]}
    ELSE IF ~hasConsole
      THEN {[outs |-> {Returned(DEFAULT_VARIATION)}, reads |-> <<>>,
             offsets |-> offsets]}
    ELSE {[outs |-> convert(p.val, numVariations(jprops), varBCD(jprops),
                            varZeroBased(jprops)),
           reads |-> <<addr>>, offsets |-> p.offsets] :
          p \in MachinePeek(offsets, addr)}

\* Int32 special() const on the machine
MachineSpecialOfProps(jprops, offsets) ==
  LET addr == specialAddress(jprops) IN
    IF addr = DEFAULT_ADDRESS \/ ~hasConsole
      THEN {[val |-> NO_VALUE, reads |-> <<>>, offsets |-> offsets]}
      ELSE {[val |-> (IF specialBCD(jprops) THEN fromBCD(p.val) ELSE p.val)
                       + (IF specialZeroBased(jprops) THEN 1 ELSE 0),
             reads |-> <<addr>>, offsets |-> p.offsets] :
            p \in MachinePeek(offsets, addr)}

\* The address text "0x1ff8" of the hotspot.
Txt1FF8 == <<"0", "x", "1", "f", "f", "8">>

\* The descriptors drawn: score bytes, variation and special value in RIOT RAM
\* cells or on the hotspot.
ReadDocuments ==
  {Field(SCORE_DIGITS, {2}) @@ Field(SCORE_ADDRESSES, {<<sa>>})
     @@ Field(VARIATIONS_COUNT, {5}) @@ Field(VARIATIONS_ADDRESS, va)
     @@ Field(SPECIAL_ADDRESS, sp) :
     sa \in {Txt80, Txt1FF8},
     va \in {{}, {Txt81}, {Txt1FF8}},
     sp \in {{}, {Txt81}, {Txt1FF8}}}

\* The RIOT RAM cells of the descriptors and the bytes drawn for them.
ReadCells == {128, 129}

ReadBytes == {18, 26}

\* A cartridge of MaxBanks banks with or without RAM, not yet installed, in a
\* console or without one.
ReadInit ==
  /\ myBankShift \in {BANK_SHIFT - 1, BANK_SHIFT}
  /\ myRamSize \in {RAM_SIZE, 128}
  /\ mySize = MaxBanks * Pow2(myBankShift)
  /\ startBank = 0
  /\ installed = FALSE
  /\ myCurrentSegOffset = <<>>
  /\ myImage = <<>>
  /\ myRAM = <<>>
  /\ stream = <<>>
  /\ saved = [offsets |-> <<>>, ram |-> <<>>]
  /\ patches = 0
  /\ cartOp = Op("new", 0, 0, FALSE)
  /\ StoreIdle
  /\ hasConsole \in BOOLEAN
  /\ sysMem \in [ReadCells -> ReadBytes]
  /\ intRamSize = myRamSize
  /\ intRam = [a \in Hotspots |-> 51]
  /\ hsProp \in ReadDocuments
  /\ hsReads = <<>>
  /\ hsOp = [op |-> "none"]

\* score() on the installed cartridge's machine
ReadScore ==
  /\ installed
  /\ \E r \in MachineScoreOfProps(hsProp, myCurrentSegOffset) :
       \E out \in Outcomes(r) :
         /\ hsOp' = HsOp("score", 0, 0, FALSE, out)
         /\ hsReads' = r.reads
         /\ myCurrentSegOffset' = r.offsets
  /\ UNCHANGED <<cartConfig, installed, myImage, myRAM, stream, saved, patches, cartOp>>
  /\ UNCHANGED <<hasConsole, sysMem, intRamSize, intRam, hsProp, storeVars>>

\* variation() on the installed cartridge's machine
ReadVariation ==
  /\ installed
  /\ \E r \in MachineVariationOfProps(hsProp, myCurrentSegOffset) :
       \E out \in r.outs :
         /\ hsOp' = HsOp("variation", 0, 0, FALSE, out)
         /\ hsReads' = r.reads
         /\ myCurrentSegOffset' = r.offsets
  /\ UNCHANGED <<cartConfig, installed, myImage, myRAM, stream, saved, patches, cartOp>>
  /\ UNCHANGED <<hasConsole, sysMem, intRamSize, intRam, hsProp, storeVars>>

\* special() on the installed cartridge's machine
ReadSpecial ==
  /\ installed
  /\ \E r \in MachineSpecialOfProps(hsProp, myCurrentSegOffset) :
       /\ hsOp' = HsOp("special", 0, 0, FALSE, Returned(r.val))
       /\ hsReads' = r.reads
       /\ myCurrentSegOffset' = r.offsets
  /\ UNCHANGED <<cartConfig, installed, myImage, myRAM, stream, saved, patches, cartOp>>
  /\ UNCHANGED <<hasConsole, sysMem, intRamSize, intRam, hsProp, storeVars>>

ReadNext ==
  \/ Install
  \/ ReadScore
  \/ ReadVariation
  \/ ReadSpecial

SpecRead == ReadInit /\ [][ReadNext]_vars

\* C22: computing the score, the variation or the special value leaves the
\* emulated machine as it was: the segment offsets of the bank mapping and the
\* cartridge RAM are the same after the read as before it, also for a
\* descriptor whose addresses fall on a bank switch hotspot.  (The reads are
\* the only steps of an installed cartridge here.)
C22_ReadsLeaveMachine ==
  [][installed => /\ myCurrentSegOffset' = myCurrentSegOffset
                  /\ myRAM' = myRAM]_vars

----------------------------------------------------------------------------
(* HighScoresManager: the formatted score.  A text is a sequence of          *)
(* characters, as the address texts are.                                     *)

\* operator<<(Int32) in decimal: the digits of a number that is not negative
RECURSIVE DecText(_)
DecText(n) ==
  IF n < 10 THEN <<HexChars[n + 1]>>
  ELSE Append(DecText(n \div 10), HexChars[(n % 10) + 1])

\* operator<<(Int32) after std::hex: the lower case hexadecimal digits
RECURSIVE HexText(_)
HexText(n) ==
  IF n < 16 THEN <<HexChars[n + 1]>>
  ELSE Append(HexText(n \div 16), HexChars[(n % 16) + 1])

\* n fill characters (none for n <= 0)
Fill(c, n) == [i \in 1 .. n |-> c]

\* A field that pads on the right.
SetWLeftJustified(text, w, c) == text \o Fill(c, w - Len(text))

\* std::setw(w) << std::setfill(c) << text: the stream's default adjustment
\* pads on the left, and a text longer than w is not cut.
SetW(text, w, c) == Fill(c, w - Len(text)) \o text

\* A formattedScore that renders a score of 0.
FormattedScoreOfZero(value, width, jprops) ==
  IF value < 0 THEN <<>>
  ELSE
    LET digits == numDigits(jprops) IN
      IF scoreBCD(jprops)
        THEN SetW(DecText(value), IF width > digits THEN width ELSE digits, " ")
        ELSE (IF width > digits THEN SetW(<<>>, width - digits, " ") ELSE <<>>)
               \o SetW(HexText(value), digits, "0")

\* const string formattedScore(Int32 score, Int32 width) const, for the
\* descriptor jprops that properties() loads
formattedScore(value, width, jprops) ==
  IF value <= 0 THEN <<>>
  ELSE
    LET digits == numDigits(jprops) IN
      IF scoreBCD(jprops)
        THEN SetW(DecText(value), IF width > digits THEN width ELSE digits, " ")
        ELSE (IF width > digits THEN SetW(<<>>, width - digits, " ") ELSE <<>>)
               \o SetW(HexText(value), digits, "0")

\* The descriptors drawn: the digit count absent, 0, 2, 6, the maximum or
\* above it, the encoding absent (BCD) or binary.
FormatDocuments ==
  {Field(SCORE_DIGITS, d) @@ Field(SCORE_BCD, b) :
     d \in {{}, {0}, {2}, {6}, {8}, {9}},
     b \in {{}, {FALSE}}}

\* The scores drawn: NO_VALUE, 0, one and two digit scores, 0xFF, 0x1234,
\* 0xFFFF, six and eight digit scores and the largest Int32.
FormatScores == {-1, 0, 1, 9, 42, 255, 4660, 65535, 123456, 99999999, 2147483647}

\* The widths drawn.
FormatWidths == {-1, 0, 2, 4, 6, 10}

FormatInit ==
  /\ CartIdle
  /\ StoreIdle
  /\ hasConsole \in BOOLEAN
  /\ sysMem = <<>>
  /\ intRamSize = 0
  /\ intRam = <<>>
  /\ hsProp \in FormatDocuments
  /\ hsReads = <<>>
  /\ hsOp = [op |-> "none"]

\* formattedScore(score, width), applied once to the drawn descriptor
CallFormattedScore ==
  /\ hsOp.op = "none"
  /\ \E s \in FormatScores : \E w \in FormatWidths :
       hsOp' = [op |-> "formattedScore", score |-> s, width |-> w,
                ret |-> formattedScore(s, w, hsProp)]
  /\ UNCHANGED <<storeVars, cartVars, hasConsole, sysMem, intRamSize, intRam, hsProp, hsReads>>

FormatNext ==
  \/ CallFormattedScore

SpecFormat == FormatInit /\ [][FormatNext]_vars

\* C23: formattedScore returns the empty text for every score <= 0 (0 and
\* NO_VALUE among them), whatever the width and the encoding; it never
\* renders "0".
C23_NoTextForNoScore ==
  (hsOp.op = "formattedScore" /\ hsOp.score <= 0) => hsOp.ret = <<>>

C23_Witness ==
  /\ hsOp.op = "formattedScore"
  /\ hsOp.score = 0
  /\ hsOp.width = 4
  /\ ~scoreBCD(hsProp)
  /\ hsOp.ret = <<>>

\* The value of a text of digits in the base given, -1 when a character is
\* no digit of the base.
RECURSIVE TextValue(_, _)
TextValue(text, base) ==
  IF text = <<>> THEN 0
  ELSE LET d == HexVal(text[Len(text)])
           rest == TextValue(SubSeq(text, 1, Len(text) - 1), base)
       IN IF d < 0 \/ d >= base \/ rest < 0 THEN -1 ELSE rest * base + d

RECURSIVE Power(_, _)
Power(b, e) == IF e = 0 THEN 1 ELSE b * Power(b, e - 1)

\* The score fits in the digit count: it has at most that many decimal digits
\* (BCD) or hexadecimal digits (binary; every Int32 has at most 8).
FitsDigits(value, digits, isBCD) ==
  IF isBCD THEN value < Power(10, digits)
  ELSE digits >= 8 \/ value < Power(16, digits)

\* C24: for a positive score that fits in the digit count the text has exactly
\* max(digits, width) characters and is right-justified: a BCD score as its
\* decimal digits behind spaces, a binary score as hexadecimal digits padded
\* with zeroes to the digit count behind spaces.
C24_FormattedWidthAndPadding ==
  (/\ hsOp.op = "formattedScore"
   /\ hsOp.score > 0
   /\ FitsDigits(hsOp.score, numDigits(hsProp), scoreBCD(hsProp))) =>
     LET digits == numDigits(hsProp)
         w == IF hsOp.width > digits THEN hsOp.width ELSE digits
         t == hsOp.ret
     IN /\ Len(t) = w
        /\ IF scoreBCD(hsProp)
             THEN \E k \in 0 .. (w - 1) :
                    /\ \A i \in 1 .. k : t[i] = " "
                    /\ t[k + 1] # "0"
                    /\ TextValue(SubSeq(t, k + 1, w), 10) = hsOp.score
             ELSE /\ \A i \in 1 .. (w - digits) : t[i] = " "
                  /\ TextValue(SubSeq(t, w - digits + 1, w), 16) = hsOp.score

\* Score 42 with width 4 and the default descriptor (4 digits, BCD): "  42".
C24_Witness ==
  /\ hsOp.op = "formattedScore"
  /\ hsOp.score = 42
  /\ hsOp.width = 4
  /\ hsProp = <<>>
  /\ hsOp.ret = <<" ", " ", "4", "2">>

----------------------------------------------------------------------------
(* PropertiesSet: the three lists of properties.  A Properties object is the *)
(* record of its Cart_MD5 and Display_Format values; an md5 is a text of     *)
(* hexadecimal digits in either letter case.                                 *)

\* Properties::setDefaults(): no md5, the display format detected
DefaultProperties == [md5 |-> <<>>, format |-> "AUTO"]

\* DefProps[][]: the built-in table, ordered by md5; an empty value leaves the
\* default in place.
DefProps ==
  <<[md5 |-> <<"a">>, format |-> "PAL"],
    [md5 |-> <<"c">>, format |-> ""],
    [md5 |-> <<"e">>, format |-> "NTSC"]>>

\* DEF_PROPS_SIZE
DEF_PROPS_SIZE == Len(DefProps)

\* BSPF::compareIgnoreCase(s1, s2): negative, 0 or positive
RECURSIVE compareIgnoreCase(_, _)
compareIgnoreCase(s1, s2) ==
  IF s1 = <<>> /\ s2 = <<>> THEN 0
  ELSE IF s1 = <<>> THEN -1
  ELSE IF s2 = <<>> THEN 1
  ELSE IF HexVal(Head(s1)) # HexVal(Head(s2))
    THEN HexVal(Head(s1)) - HexVal(Head(s2))
  ELSE compareIgnoreCase(Tail(s1), Tail(s2))

\* The properties of built-in entry i: the defaults, with every value of the
\* entry that is not empty set.
BuiltinProperties(i) ==
  [md5 |-> IF DefProps[i].md5 # <<>> THEN DefProps[i].md5 ELSE DefaultProperties.md5,
   format |-> IF DefProps[i].format # "" THEN DefProps[i].format
              ELSE DefaultProperties.format]

\* The binary search of getMD5 in the built-in table between low and high
\* (counted from 0).
RECURSIVE SearchDefProps(_, _, _)
SearchDefProps(md5, low, high) ==
  IF low > high THEN [found |-> FALSE, properties |-> DefaultProperties]
  ELSE
    LET i == (low + high) \div 2
        cmp == compareIgnoreCase(md5, DefProps[i + 1].md5)
    IN IF cmp = 0 THEN [found |-> TRUE, properties |-> BuiltinProperties(i + 1)]
       ELSE IF cmp < 0 THEN SearchDefProps(md5, low, i - 1)
       ELSE SearchDefProps(md5, i + 1, high)

\* A getMD5 that looks at the temporary list before the external one.
GetMD5TempFirst(md5, useDefaults, ext, tmp) ==
  IF ~useDefaults /\ md5 \in DOMAIN tmp
    THEN [found |-> TRUE, properties |-> tmp[md5]]
  ELSE IF ~useDefaults /\ md5 \in DOMAIN ext
    THEN [found |-> TRUE, properties |-> ext[md5]]
  ELSE SearchDefProps(md5, 0, DEF_PROPS_SIZE - 1)

\* bool getMD5(const string& md5, Properties& properties, bool useDefaults)
\* on the external list ext and the temporary list tmp
getMD5(md5, useDefaults, ext, tmp) ==
  IF ~useDefaults /\ md5 \in DOMAIN ext
    THEN [found |-> TRUE, properties |-> ext[md5]]
  ELSE IF ~useDefaults /\ md5 \in DOMAIN tmp
    THEN [found |-> TRUE, properties |-> tmp[md5]]
  ELSE SearchDefProps(md5, 0, DEF_PROPS_SIZE - 1)

\* list.erase(md5)
Erase(list, md5) == [k \in DOMAIN list \ {md5} |-> list[k]]

\* list.emplace(md5, properties), after the erase of an old item
Emplace(list, md5, props) ==
  [k \in DOMAIN list \cup {md5} |-> IF k = md5 THEN props ELSE list[k]]

\* void insert(const Properties& properties, bool save): the two lists after it
insert(props, save, ext, tmp) ==
  LET md5 == props.md5
      any == getMD5(md5, FALSE, ext, tmp)
      builtin == getMD5(md5, TRUE, ext, tmp)
  IN IF md5 = <<>> THEN [ext |-> ext, tmp |-> tmp]
     ELSE IF any.found /\ any.properties = props THEN [ext |-> ext, tmp |-> tmp]
     ELSE IF builtin.found /\ builtin.properties = props
       THEN [ext |-> Erase(ext, md5), tmp |-> tmp]
     ELSE IF save THEN [ext |-> Emplace(ext, md5, props), tmp |-> tmp]
     ELSE [ext |-> ext, tmp |-> Emplace(tmp, md5, props)]

\* The md5 values of the properties inserted: none and two letter cases of a
\* built-in one.
PropMD5s == {<<>>, <<"a">>, <<"A">>}

\* The md5 values looked up: those, and one that is in no list.
QueryMD5s == PropMD5s \cup {<<"b">>}

\* The display formats drawn.
PropFormats == {"AUTO", "PAL", "NTSC"}

\* The properties set as constructed: both lists empty.
PropSetInit ==
  /\ CartIdle
  /\ HsIdle
  /\ myExternalProps = <<>>
  /\ myTempProps = <<>>
  /\ propOp = [op |-> "none"]
  /\ myStmts = <<>>
  /\ sqlOp = [op |-> "none"]

\* insert(properties, save)
Insert ==
  /\ \E m \in PropMD5s : \E f \in PropFormats : \E save \in BOOLEAN :
       LET p == [md5 |-> m, format |-> f]
           r == insert(p, save, myExternalProps, myTempProps)
       IN /\ myExternalProps' = r.ext
          /\ myTempProps' = r.tmp
          /\ propOp' = [op |-> "insert", properties |-> p, save |-> save]
  /\ UNCHANGED <<cartVars, hsVars, sqlVars>>

\* getMD5(md5, properties, useDefaults); the operation before it is kept when
\* it was an insert
GetMD5 ==
  /\ \E m \in QueryMD5s : \E useDefaults \in BOOLEAN :
       LET r == getMD5(m, useDefaults, myExternalProps, myTempProps)
       IN propOp' = [op |-> "getMD5", md5 |-> m, useDefaults |-> useDefaults,
                     found |-> r.found, properties |-> r.properties,
                     after |-> IF propOp.op = "insert" THEN propOp
                               ELSE [op |-> "other"]]
  /\ UNCHANGED <<cartVars, hsVars, sqlVars, myExternalProps, myTempProps>>

PropSetNext ==
  \/ Insert
  \/ GetMD5

SpecPropSet == PropSetInit /\ [][PropSetNext]_vars

\* Entry i of the built-in table has the md5, letter case aside.
IsBuiltin(i, md5) ==
  /\ Len(DefProps[i].md5) = Len(md5)
  /\ \A k \in 1 .. Len(md5) : HexVal(DefProps[i].md5[k]) = HexVal(md5[k])

\* C25: getMD5 searches the lists in a fixed order.  Without useDefaults an
\* entry of the external list wins over one of the temporary list, which wins
\* over the built-in table; with useDefaults only the built-in table is
\* looked at; when nothing matches the result is false and the properties are
\* the defaults.
C25_GetMD5Priority ==
  propOp.op = "getMD5" =>
    LET md5 == propOp.md5
        inExt == ~propOp.useDefaults /\ md5 \in DOMAIN myExternalProps
        inTmp == ~propOp.useDefaults /\ md5 \in DOMAIN myTempProps
        inDef == \E i \in 1 .. DEF_PROPS_SIZE : IsBuiltin(i, md5)
    IN /\ inExt => (propOp.found /\ propOp.properties = myExternalProps[md5])
       /\ (~inExt /\ inTmp) => (propOp.found /\ propOp.properties = myTempProps[md5])
       /\ (~inExt /\ ~inTmp /\ inDef) =>
            /\ propOp.found
            /\ \E i \in 1 .. DEF_PROPS_SIZE :
                 IsBuiltin(i, md5) /\ propOp.properties = BuiltinProperties(i)
       /\ (~inExt /\ ~inTmp /\ ~inDef) =>
            (~propOp.found /\ propOp.properties = DefaultProperties)

\* The md5 is in all three lists with three different entries, and the
\* external one is returned.
C25_Witness ==
  /\ propOp.op = "getMD5"
  /\ ~propOp.useDefaults
  /\ propOp.md5 = <<"a">>
  /\ <<"a">> \in DOMAIN myExternalProps
  /\ <<"a">> \in DOMAIN myTempProps
  /\ myExternalProps[<<"a">>] # myTempProps[<<"a">>]
  /\ myExternalProps[<<"a">>] # BuiltinProperties(1)
  /\ myTempProps[<<"a">>] # BuiltinProperties(1)
  /\ propOp.properties = myExternalProps[<<"a">>]

\* C26: after insert(p, save) with an md5 that is not empty, for either value
\* of save and whatever the three lists hold for the md5, the getMD5 of that
\* md5 that follows returns properties equal to p.
C26_InsertThenGetMD5 ==
  (/\ propOp.op = "getMD5"
   /\ propOp.after.op = "insert"
   /\ propOp.after.properties.md5 # <<>>
   /\ propOp.md5 = propOp.after.properties.md5
   /\ ~propOp.useDefaults) =>
     (propOp.found /\ propOp.properties = propOp.after.properties)

----------------------------------------------------------------------------
(* HighScoresManager: the range of a binary score *)

\* C27: score() returns NO_VALUE (-1) only when the console is absent or a BCD
\* byte is invalid; with binary encoding every combination of score bytes (up
\* to the maximum address count) and trailing zeroes (up to the maximum) gives
\* a result that is not negative in 32 bit signed arithmetic: nothing
\* overflows and no byte pattern accumulates to -1.
C27_BinaryScoreNotNegative ==
  (hsOp.op = "score" /\ hasConsole) =>
    /\ (~hsOp.trapped /\ hsOp.ret = NO_VALUE) =>
         (hsOp.isBCD /\ \E i \in 1 .. hsOp.a : ~ValidBCD(ScoreBytesRead(hsOp.a)[i]))
    /\ ~hsOp.isBCD => (~hsOp.trapped /\ hsOp.ret >= 0)

----------------------------------------------------------------------------
(* HighScoresManager: the range of convert() *)

\* C28 as claimed: for every raw byte and every combination of encoding and
\* zero-based flag, convert(raw, numVariations, isBCD, zeroBased) never
\* exceeds numVariations.
C28_AsClaimed ==
  (hsOp.op = "convert" /\ ~hsOp.trapped) => hsOp.ret <= hsOp.maxVal

\* C28: convert(raw, numVariations, isBCD, zeroBased) never exceeds the
\* largest value of the minimum bit count of numVariations (plus 1 when not
\* zero-based), 2^bits - 1, by more than the 1 added for a zero-based value.
\* (A numVariations of 0 has no bit count when zero-based.)
C28_ConvertWithinBits ==
  (hsOp.op = "convert" /\ ConvertMax(hsOp.maxVal, hsOp.zeroBased) >= 1) =>
    /\ ~hsOp.trapped
    /\ \E b \in 0 .. 10 :
         /\ IsMinBits(b, ConvertMax(hsOp.maxVal, hsOp.zeroBased), hsOp.isBCD)
         /\ hsOp.ret <= (2 ^ b) - 1 + (IF hsOp.zeroBased THEN 1 ELSE 0)

\* C28 happens: the byte 7 with 5 variations, binary and not zero-based (6
\* values, 3 bits), comes back as 7.
C28_Witness ==
  /\ hsOp.op = "convert"
  /\ hsOp.val = 7
  /\ hsOp.maxVal = 5
  /\ ~hsOp.isBCD
  /\ ~hsOp.zeroBased
  /\ hsOp.ret = 7

----------------------------------------------------------------------------
(* KeyValueRepositorySqlite: the prepared statements.  A statement is the    *)
(* record of whether it has been stepped since its last reset and of the     *)
(* values bound to it.                                                       *)

\* myStmtInsert, myStmtSelect, myStmtDelete, myStmtSelectOne, myStmtCount
Statements == {"myStmtInsert", "myStmtSelect", "myStmtDelete", "myStmtSelectOne",
               "myStmtCount"}

\* make_unique<SqliteStatement>(myDb, sql): a statement not yet stepped, with
\* nothing bound
Prepared == [stepped |-> FALSE, bound |-> <<>>]

\* SqliteStatement::reset()
Reset(stmts, s) == [stmts EXCEPT ![s].stepped = FALSE]

\* SqliteStatement::bind(1, ..) [.bind(2, ..)]
Bind(stmts, s, args) == [stmts EXCEPT ![s].bound = args]

\* SqliteStatement::step()
Step(stmts, s) == [stmts EXCEPT ![s].stepped = TRUE]

\* What an accessor leaves in sqlOp: the statement it reset and the one it
\* returned.
SqlOp(op, r, s) == [op |-> op, reset |-> r, stmt |-> s]

\* The keys and values the accessors are called with.
SqlKeys == {"k1", "k2"}

SqlValues == {"v1"}

\* The repository as constructed: no statement prepared yet.
SqlInit ==
  /\ CartIdle
  /\ HsIdle
  /\ myExternalProps = <<>>
  /\ myTempProps = <<>>
  /\ propOp = [op |-> "none"]
  /\ myStmts = <<>>
  /\ sqlOp = [op |-> "none"]

\* initialize()
Initialize ==
  /\ myStmts = <<>>
  /\ myStmts' = [s \in Statements |-> Prepared]
  /\ sqlOp' = [op |-> "initialize"]
  /\ UNCHANGED <<cartVars, hsVars, propVars>>

\* stmtInsert(key, value)
StmtInsert ==
  /\ DOMAIN myStmts = Statements
  /\ \E key \in SqlKeys : \E value \in SqlValues :
       myStmts' = Bind(Reset(myStmts, "myStmtInsert"), "myStmtInsert", <<key, value>>)
  /\ sqlOp' = SqlOp("stmtInsert", "myStmtInsert", "myStmtInsert")
  /\ UNCHANGED <<cartVars, hsVars, propVars>>

\* stmtSelect()
StmtSelect ==
  /\ DOMAIN myStmts = Statements
  /\ myStmts' = Reset(myStmts, "myStmtInsert")
  /\ sqlOp' = SqlOp("stmtSelect", "myStmtInsert", "myStmtSelect")
  /\ UNCHANGED <<cartVars, hsVars, propVars>>

\* stmtDelete(key)
StmtDelete ==
  /\ DOMAIN myStmts = Statements
  /\ \E key \in SqlKeys :
       myStmts' = Bind(Reset(myStmts, "myStmtDelete"), "myStmtDelete", <<key>>)
  /\ sqlOp' = SqlOp("stmtDelete", "myStmtDelete", "myStmtDelete")
  /\ UNCHANGED <<cartVars, hsVars, propVars>>

\* stmtCount(key)
StmtCount ==
  /\ DOMAIN myStmts = Statements
  /\ \E key \in SqlKeys :
       myStmts' = Bind(Reset(myStmts, "myStmtCount"), "myStmtCount", <<key>>)
  /\ sqlOp' = SqlOp("stmtCount", "myStmtCount", "myStmtCount")
  /\ UNCHANGED <<cartVars, hsVars, propVars>>

\* stmtSelectOne(key)
StmtSelectOne ==
  /\ DOMAIN myStmts = Statements
  /\ \E key \in SqlKeys :
       myStmts' = Bind(Reset(myStmts, "myStmtSelectOne"), "myStmtSelectOne", <<key>>)
  /\ sqlOp' = SqlOp("stmtSelectOne", "myStmtSelectOne", "myStmtSelectOne")
  /\ UNCHANGED <<cartVars, hsVars, propVars>>

\* The caller steps the statement an accessor returned to it.
StepReturned ==
  /\ sqlOp.op \notin {"none", "initialize"}
  /\ myStmts' = Step(myStmts, sqlOp.stmt)
  /\ sqlOp' = SqlOp("step", sqlOp.reset, sqlOp.stmt)
  /\ UNCHANGED <<cartVars, hsVars, propVars>>

SqlNext ==
  \/ Initialize
  \/ StmtInsert
  \/ StmtSelect
  \/ StmtDelete
  \/ StmtCount
  \/ StmtSelectOne
  \/ StepReturned

SpecSql == SqlInit /\ [][SqlNext]_vars

\* The accessors of the prepared statements.
Accessors == {"stmtInsert", "stmtSelect", "stmtDelete", "stmtCount", "stmtSelectOne"}

\* C29: every accessor of a prepared statement (stmtInsert, stmtSelect,
\* stmtDelete, stmtCount, stmtSelectOne) resets the very statement it returns
\* before it returns it: the statement returned is the one reset, and it has
\* not been stepped since.
C29_AccessorResetsReturned ==
  sqlOp.op \in Accessors =>
    /\ sqlOp.reset = sqlOp.stmt
    /\ ~myStmts[sqlOp.stmt].stepped

----------------------------------------------------------------------------
(* CartridgeEnhanced: properties *)

\* C1: for every bank index b < bankCount() and every segment s, bank(b, s)
\* returns true, and getBank(address) right after it returns b for every address
\* lying in segment s.
C1_BankThenGetBank ==
  (cartOp.op = "bank" /\ cartOp.bank < bankCount) =>
    /\ cartOp.ret = TRUE
    /\ \A a \in CartAddrs :
         SegmentOf(a) = cartOp.seg => GetBank(myCurrentSegOffset, a) = cartOp.bank

\* C1 happens: the last bank of a two bank image was switched into the second
\* of two segments, and an address of that segment reports it.
C1_Witness ==
  /\ cartOp = Op("bank", 1, 1, TRUE)
  /\ bankCount = 2
  /\ SegmentOf(6144) = 1
  /\ GetBank(myCurrentSegOffset, 6144) = 1
  /\ GetBank(myCurrentSegOffset, 4224) = 0

\* C2: for every bank index b >= bankCount() and every segment s, bank(b, s)
\* returns false and leaves the segment offsets, the image and the RAM as they
\* were before the call.
C2_InvalidBankRefused ==
  [][(cartOp'.op = "bank" /\ cartOp'.bank >= bankCount) =>
       /\ cartOp'.ret = FALSE
       /\ UNCHANGED <<myCurrentSegOffset, myImage, myRAM>>]_vars

\* C2 happens: an out of range bank was asked for after earlier switches, a RAM
\* write and a patch, and was refused.
C2_Witness ==
  /\ cartOp.op = "bank"
  /\ cartOp.bank >= bankCount
  /\ cartOp.ret = FALSE
  /\ \E s \in Segments : myCurrentSegOffset[s] # 0
  /\ \E i \in DOMAIN myRAM : myRAM[i] # 0
  /\ myImage # <<>>

\* C3: in every state after install(), each segment offset is a multiple of the
\* bank size and the segment it designates lies inside the ROM image.
C3_OffsetsValid ==
  installed =>
    \A s \in Segments :
      /\ myCurrentSegOffset[s] % myBankSize = 0
      /\ myCurrentSegOffset[s] + myBankSize <= mySize

\* C3 happens: an image that is not a whole number of banks, with the last
\* whole bank mapped by a hotspot switch, after a load.
C3_Witness ==
  /\ installed
  /\ mySize % myBankSize # 0
  /\ cartOp.op = "load"
  /\ \E s \in Segments : myCurrentSegOffset[s] + myBankSize + 1024 = mySize
  /\ \E s \in Segments : myCurrentSegOffset[s] # 0

\* C4: after bank() calls and RAM writes, save() and then load() into a freshly
\* reset engine gives the segment offsets and RAM that were saved, so a read of
\* any address returns, over the same image, the byte the saved engine returns.
C4_SaveLoadRoundTrip ==
  (cartOp.op = "load" /\ cartOp.seg = 1) =>
    /\ myCurrentSegOffset = saved.offsets
    /\ myRAM = saved.ram
    /\ \A a \in CartAddrs :
         PeekValue(myCurrentSegOffset, myImage, myRAM, a)
           = PeekValue(saved.offsets, myImage, saved.ram, a)

\* C4 happens: a state saved with a bank other than the start bank in the last
\* segment and a written RAM byte was loaded into the freshly reset engine.
C4_Witness ==
  /\ cartOp.op = "load"
  /\ cartOp.seg = 1
  /\ myBankSegs = 2
  /\ GetBank(saved.offsets, 6144) # getStartBank
  /\ \E i \in DOMAIN saved.ram : saved.ram[i] = 255
  /\ GetBank(myCurrentSegOffset, 6144) # getStartBank

\* C5: a bank switch, asked for through bank() or triggered by a hotspot during
\* peek or poke, changes only the segment offsets: any step other than patch()
\* leaves the ROM image as it was.
C5_OnlyPatchChangesImage ==
  [][cartOp'.op # "patch" => myImage' = myImage]_vars

\* C5 happens: a peek on a hotspot switched to another bank, with the image
\* still the ROM file.
C5_Witness ==
  /\ cartOp.op = "peek"
  /\ cartOp.seg = 1
  /\ \E a \in CartAddrs : GetBank(myCurrentSegOffset, a) # getStartBank
  /\ myImage = <<>>

\* C6: after reset(), whatever bank switches came before, getBank(address) is the
\* start bank for an address in any segment.
C6_ResetRestoresStartBank ==
  cartOp.op = "reset" =>
    \A a \in CartAddrs : GetBank(myCurrentSegOffset, a) = getStartBank

\* C6 happens: a reset of a two segment cartridge whose family starts in bank 1,
\* after a state with other banks in both segments had been saved.
C6_Witness ==
  /\ cartOp.op = "reset"
  /\ myBankSegs = 2
  /\ getStartBank = 1
  /\ stream # <<>>
  /\ \A s \in Segments : saved.offsets[s] = 0
  /\ \A a \in CartAddrs : GetBank(myCurrentSegOffset, a) = 1

====
